---- MODULE Spec2Model ----
(***************************************************************************)
(* LineSight: the decoration provider (provideFileDecoration, refresh,     *)
(* updateFromBuffer, flushUpdates), the line counter it delegates to       *)
(* (countLines), the ConcurrencyLimiter that gates the counting and the    *)
(* three LRU caches of AppState.                                           *)
(*                                                                         *)
(* Scheduling is the JavaScript event loop: every action below is the code *)
(* that runs between two suspension points (an awaited stat, an awaited    *)
(* count, a timer), including the promise reactions that follow it in the  *)
(* same turn.                                                              *)
(***************************************************************************)
EXTENDS Integers, Sequences, FiniteSets, TLC

\* ------------------------------------------------------------------ bounds
\* Concurrent provideFileDecoration calls (slots are reused after a return).
MaxResolves == 3
\* Events from outside in one behaviour: calls of provideFileDecoration, of
\* refresh and of updateFromBuffer, and writes and removals of files.
MaxEvents == 4
\* The limiter's constructor arguments, scaled down (the extension uses 20, 500).
maxConcurrent == 1
maxQueued == 1
\* PENDING_UPDATES_CAP of the provider and WATCHER_QUEUE_CAP of the watcher
\* queue, scaled down (the source uses 500 for both).
PENDING_UPDATES_CAP == 2
WATCHER_QUEUE_CAP == 2
\* The notification path on its own: how many calls from outside (refresh,
\* updateFromBuffer, queueUpdate) one behaviour makes.
MaxNotifyOps == 5
\* The limiter on its own: how many units are handed to run(), and the largest
\* constructor argument (the arguments range over 0..MaxLimitArg).
MaxUnits == 4
MaxLimitArg == 2

\* The initial scan on its own: how many calls of initializeDecorations start
\* a scan, how far initializationRunId counts, how many workspace folders
\* there are, and config.batchSize scaled down (the default is 200).
MaxScans == 2
MaxRunId == 4
MaxFolders == 2
batchSize == 2

\* One call of countLinesWithReadStream: the longest file, in characters.
MaxChars == 3

\* The tracked timers on their own: how many scheduleTimeout creates.
MaxTimers == 4

\* formatLineCount on its own: every count up to this one is formatted.
MaxPlainCount == 1200

\* ------------------------------------------------------- program constants
sizeLimit == 5000000
estimationFactor == 50
debounceDelay == 300
CacheMaxSize == 10000

\* ------------------------------------------------------------ input sets
\* File paths (file scheme, not skipped by shouldSkipPath).
Keys == {"a", "b"}
\* File sizes: empty, countable, above sizeLimit.
Sizes == {0, 120, 5000049}
\* Line counts an editor buffer reports to updateFromBuffer.
BufferCounts == {0, 7}
Resolves == 1..MaxResolves
\* An optional value is a sequence of at most one element: <<>> is undefined.
None == <<>>
Some(v) == <<v>>

VARIABLES
  fs,                 \* the disk: key -> [isFile, size, mtimeMs]
  fileMetadataCache,  \* AppState.fileMetadataCache: LRU sequence of [k, v]
  lineCountCache,     \* AppState.lineCountCache
  fileDecorations,    \* AppState.fileDecorations
  processingQueue,    \* provider.processingQueue: key -> task id, 0 for no entry
  pendingUpdates,     \* provider.pendingUpdates
  fullRefreshPending, \* provider.fullRefreshPending
  refreshTimer,       \* provider.refreshTimer: [delay, live]; live = not yet fired
  fired,              \* what onDidChangeFileDecorations fired in the last step
  running,            \* limiter.running
  queue,              \* limiter.queue: task ids in arrival order
  tasks,              \* the countLines units handed to limiter.run
  calls,              \* the provideFileDecoration calls that have not returned
  returned,           \* the calls that returned in the last step, with their results
  used,               \* how many events from outside so far
  limiter,            \* a ConcurrencyLimiter on its own: its four fields
  units,              \* the units handed to its run(), with their handles
  started,            \* the units whose fn() was called, in the order of the calls
  enqueued,           \* the units run() pushed on the queue, in the order of the pushes
  batcher,            \* the provider's pendingUpdates, fullRefreshPending, refreshTimer
  funnel,             \* AppState's pendingWatcherUpdates, watcherQueueTimer, watcherQueueDelayMs;
                      \* for both timers, elapsed = time has passed since it was armed
  emitted,            \* what onDidChangeFileDecorations fired in the last step
  forwarded,          \* what the watcher queue handed to provider.refresh in the last step
  since,              \* what was asked for since the last flush of each of the two
  ops,                \* how many calls from outside so far
  appState,           \* AppState: initializationRunId, isInitializing, initializationPromise
  scans,              \* the scans initializeDecorations started: position, submissions
  lru,                \* an LRUCache: constructor argument, maxSize, the Map oldest first
  recency,            \* its keys in the order of their latest promotion, oldest first
  lastOp,             \* the call of the last step: result, evictions, whether the key was held
  workspace,          \* vscode.workspace: isTrusted
  extension,          \* the extension: activated, how many linesight.refresh commands ran
  reading,            \* one call of countLinesWithReadStream: stream, timer, locals, handle
  activeTimers,       \* timer.ts: the Set of tracked timers
  timeouts,           \* the host's timers made by scheduleTimeout: "armed", "fired" or "cleared"
  callbacks,          \* for each timer, how often its callback ran
  badge,              \* the last call of formatLineCount: its argument and its result
  caches              \* the keys held by lineCountCache, fileDecorations and fileMetadataCache

\* The provider with its caches, its limiter and the disk.
providerVars == <<fs, fileMetadataCache, lineCountCache, fileDecorations,
                  processingQueue, pendingUpdates, fullRefreshPending, refreshTimer,
                  fired, running, queue, tasks, calls, returned, used>>

\* The limiter on its own.
limiterVars == <<limiter, units, started, enqueued>>

\* The notification path on its own: watcher queue and provider batching.
notifyVars == <<batcher, funnel, emitted, forwarded, since, ops>>

\* The initial scan of the workspace on its own.
scanVars == <<appState, scans>>

\* An LRUCache on its own.
lruVars == <<lru, recency, lastOp>>

\* The extension in its host.
hostVars == <<workspace, extension>>

\* One call of countLinesWithReadStream.
readVars == <<reading>>

\* The tracked timers of timer.ts.
timerVars == <<activeTimers, timeouts, callbacks>>

\* One call of formatLineCount.
formatVars == <<badge>>

\* The three caches beside the watcher queue.
cacheVars == <<caches>>

\* What the provider's steps leave alone.
exceptProvider == <<limiterVars, notifyVars, scanVars, lruVars, hostVars, readVars, timerVars, formatVars, cacheVars>>

\* What the steps of the limiter on its own leave alone.
exceptLimiter == <<providerVars, notifyVars, scanVars, lruVars, hostVars, readVars, timerVars, formatVars, cacheVars>>

\* What the steps of the notification path on its own leave alone.
exceptNotify == <<providerVars, limiterVars, scanVars, lruVars, hostVars, readVars, timerVars, formatVars, cacheVars>>

\* What the steps of the initial scan of the workspace on its own leave alone.
exceptScan == <<providerVars, limiterVars, notifyVars, lruVars, hostVars, readVars, timerVars, formatVars, cacheVars>>

\* What the steps of an LRUCache on its own leave alone.
exceptLru == <<providerVars, limiterVars, notifyVars, scanVars, hostVars, readVars, timerVars, formatVars, cacheVars>>

\* What the steps of the extension in its host leave alone.
exceptHost == <<providerVars, limiterVars, notifyVars, scanVars, lruVars, readVars, timerVars, formatVars, cacheVars>>

\* What activate and the command handlers, which start scans, leave alone.
exceptExtension == <<providerVars, limiterVars, notifyVars, lruVars, readVars, timerVars, formatVars, cacheVars>>

\* What the steps of one call of countLinesWithReadStream leave alone.
exceptRead == <<providerVars, limiterVars, notifyVars, scanVars, lruVars, hostVars, timerVars, formatVars, cacheVars>>

\* What the steps of the tracked timers of timer.ts leave alone.
exceptTimer == <<providerVars, limiterVars, notifyVars, scanVars, lruVars, hostVars, readVars, formatVars, cacheVars>>

\* What the steps of one call of formatLineCount leave alone.
exceptFormat == <<providerVars, limiterVars, notifyVars, scanVars, lruVars, hostVars, readVars, timerVars, cacheVars>>

\* What the steps of the three caches beside the watcher queue leave alone.
exceptCache == <<providerVars, limiterVars, notifyVars, scanVars, lruVars, hostVars, readVars, timerVars, formatVars>>

\* What the steps of the watcher queue that purge the caches leave alone.
exceptWatcher == <<providerVars, limiterVars, scanVars, lruVars, hostVars, readVars, timerVars, formatVars>>

vars == <<providerVars, limiterVars, notifyVars, scanVars, lruVars, hostVars, readVars, timerVars, formatVars, cacheVars>>

\* --------------------------------------------------------------- LRUCache
\* A cache is the Map's insertion order: a sequence of [k, v], oldest first.
LRUIndex(cache, key) ==
  IF \E i \in 1..Len(cache) : cache[i].k = key
  THEN CHOOSE i \in 1..Len(cache) : cache[i].k = key
  ELSE 0

LRUHas(cache, key) == LRUIndex(cache, key) # 0

\* The value stored for key, without promotion (Map.get).
LRUPeek(cache, key) ==
  IF LRUHas(cache, key) THEN Some(cache[LRUIndex(cache, key)].v) ELSE None

LRURemove(cache, key) ==
  SelectSeq(cache, LAMBDA e : e.k # key)

LRUDelete(cache, key) == LRURemove(cache, key)

\* A get() that takes the entry out instead of promoting it.
LRUGetDropsEntry(cache, key) ==
  [value |-> LRUPeek(cache, key), cache |-> LRURemove(cache, key)]

\* A get() that is a peek.
LRUGetNoPromotion(cache, key) ==
  [value |-> LRUPeek(cache, key), cache |-> cache]

\* get(): the value, and the cache with the entry moved to the MRU end.
LRUGet(cache, key) ==
  IF LRUPeek(cache, key) = None
  THEN [value |-> None, cache |-> cache]
  ELSE [value |-> LRUPeek(cache, key),
        cache |-> Append(LRURemove(cache, key),
                         [k |-> key, v |-> LRUPeek(cache, key)[1]])]

\* A set() that does not overwrite the value of a key it holds.
LRUSetKeepsOld(cache, maxSize, key, value) ==
  IF LRUHas(cache, key)
  THEN cache
  ELSE IF Len(cache) >= maxSize
       THEN Append(Tail(cache), [k |-> key, v |-> value])
       ELSE Append(cache, [k |-> key, v |-> value])

\* A set() that evicts the oldest entry whenever the cache is full.
LRUSetAlwaysEvicts(cache, maxSize, key, value) ==
  IF Len(cache) >= maxSize
  THEN Append(LRURemove(Tail(cache), key), [k |-> key, v |-> value])
  ELSE Append(LRURemove(cache, key), [k |-> key, v |-> value])

\* set(): a held key is re-inserted at the MRU end with the new value; a new
\* key evicts the oldest entry when the cache is full.
LRUSet(cache, maxSize, key, value) ==
  IF LRUHas(cache, key)
  THEN Append(LRURemove(cache, key), [k |-> key, v |-> value])
  ELSE IF Len(cache) >= maxSize
       THEN Append(Tail(cache), [k |-> key, v |-> value])
       ELSE Append(cache, [k |-> key, v |-> value])

\* What a cache maps keys to, whatever the order of the entries.
LRUContents(cache) == {cache[i] : i \in 1..Len(cache)}

\* A constructor that rounds the capacity up.
LRUMaxSizeRoundsUp(halves) == IF (halves + 1) \div 2 > 1 THEN (halves + 1) \div 2 ELSE 1

\* The constructor's Math.max(1, Math.floor(maxSize)), the argument being
\* given in halves so that fractions can be passed.
LRUMaxSize(halves) == IF halves \div 2 > 1 THEN halves \div 2 ELSE 1

\* The keys, values and capacities (in halves: -1, 0, 1/2, 1, 3/2, 2, 5/2, 3)
\* of a cache on its own.  Values are never undefined, as in the three caches
\* of AppState, whose values are numbers and objects.
LruKeys == {"a", "b", "c", "d"}
LruValues == {1, 2}
LruCapacities == {-2, 0, 1, 2, 3, 4, 5, 6}

\* The keys of a sequence of entries, in its order.
LRUKeyOrder(cache) == [i \in 1..Len(cache) |-> cache[i].k]

\* A key moved to the end of an order of keys, or added at its end.
Promoted(order, key) == Append(SelectSeq(order, LAMBDA x : x # key), key)

\* ------------------------------------------------------------ lineCounter
\* The decoration of a count: badge and tooltip are functions of these two.
createLineDecoration(lineCount, estimated) ==
  [lineCount |-> lineCount, estimated |-> estimated]

\* What a complete streaming read of the file returns: every write leaves
\* content with a different number of lines; an empty file has none.
ContentLines(file) ==
  IF file.size = 0 THEN 0 ELSE file.mtimeMs + 1

\* FileCacheMetadata of a stat result.
Fingerprint(stat) == [size |-> stat.size, mtimeMs |-> stat.mtimeMs]

\* An estimate that rounds up.
EstimatedLineCountRoundsUp(size) ==
  (size + estimationFactor - 1) \div estimationFactor

\* The estimate for a file above sizeLimit.
EstimatedLineCount(size) == size \div estimationFactor

\* countLines up to its first await: it re-commits the stat it was given.
CountLinesStart(meta, key, stat) ==
  LRUSet(meta, CacheMaxSize, key, Fingerprint(stat))

\* countLines' catch block: the three caches forget the key.
Purge(cache, key) == LRUDelete(cache, key)

\* ------------------------------------------------------ ConcurrencyLimiter
\* What run() does with a new unit.
RunOutcome(run, q) ==
  IF run < maxConcurrent THEN "start"
  ELSE IF Len(q) < maxQueued THEN "queue"
  ELSE "reject"

\* dequeue(): after a unit finished and running was decremented to run.
CanDequeue(run, q) == Len(q) > 0 /\ run < maxConcurrent

\* A run() that starts every unit at once, and one that queues without limit.
LimiterRunAlwaysStarts(L) == "start"

LimiterRunNeverRejects(L) ==
  IF L.running < L.maxConcurrent THEN "start" ELSE "queue"

\* A run() that queues while the queue has room, whatever is running.
LimiterRunQueuesFirst(L) ==
  IF Len(L.queue) < L.maxQueued THEN "queue" ELSE "reject"

\* What run() does with a new unit, for a limiter whose fields are the record L.
LimiterRunOutcome(L) ==
  IF L.running < L.maxConcurrent THEN "start"
  ELSE IF Len(L.queue) < L.maxQueued THEN "queue"
  ELSE "reject"

\* A dequeue() that starts nothing.
LimiterNeverDequeues(L) == FALSE

\* The test of dequeue(), for a limiter whose fields are the record L.
LimiterCanDequeue(L) == Len(L.queue) > 0 /\ L.running < L.maxConcurrent

\* The constructor: Math.max(1, Math.floor(n)) of an integer argument.
ClampLimit(n) == IF n > 1 THEN n ELSE 1

\* A shift() that takes from the wrong end.
ShiftTakesLast(q) == [next |-> q[Len(q)], rest |-> SubSeq(q, 1, Len(q) - 1)]

\* queue.shift(): the first entry and the rest.
Shift(q) == [next |-> Head(q), rest |-> Tail(q)]

\* this.running++.
Incremented(L) == [L EXCEPT !.running = @ + 1]

\* A completion that does not give the slot back.
DecrementedKeepsSlot(L) == L

\* this.running--.
Decremented(L) == [L EXCEPT !.running = @ - 1]

\* The units of the limiter on its own: what fn() does when it is called.
Units == 1..MaxUnits
UnitKinds == {"resolves", "rejects", "throws"}
NewUnit == [state |-> "new", kind |-> "resolves", handle |-> "none"]
NoLimiter == [constructed |-> FALSE, maxConcurrent |-> 1, maxQueued |-> 1,
              running |-> 0, queue |-> <<>>]

\* execute() of unit u and dequeue(), on the limiter L, the units U and the
\* start order S. A unit that throws synchronously gives its slot back and
\* dequeues in turn before execute() returns.
RECURSIVE Execute(_, _, _, _)
Execute(u, L, U, S) ==
  LET L1 == Incremented(L)
      S1 == Append(S, u)
  IN
  IF U[u].kind = "throws"
  THEN LET L2 == Decremented(L1)
           U2 == [U EXCEPT ![u] = [@ EXCEPT !.state = "done", !.handle = "rejected"]]
       IN IF LimiterCanDequeue(L2)
          THEN Execute(Shift(L2.queue).next,
                       [L2 EXCEPT !.queue = Shift(L2.queue).rest], U2, S1)
          ELSE [limiter |-> L2, units |-> U2, started |-> S1]
  ELSE [limiter |-> L1,
        units |-> [U EXCEPT ![u] = [@ EXCEPT !.state = "running"]],
        started |-> S1]

Dequeue(L, U, S) ==
  IF LimiterCanDequeue(L)
  THEN Execute(Shift(L.queue).next, [L EXCEPT !.queue = Shift(L.queue).rest], U, S)
  ELSE [limiter |-> L, units |-> U, started |-> S]

\* ------------------------------------------------------------- provider
\* The fast-path test of provideFileDecoration.
CacheHit(cachedMetadata, cachedCount, stat) ==
  /\ cachedMetadata # None
  /\ cachedCount # None
  /\ cachedMetadata[1].size = stat.size
  /\ cachedMetadata[1].mtimeMs = stat.mtimeMs

\* The guard after the awaited count: the metadata is still the caller's stat.
StillCurrent(currentMeta, stat) ==
  /\ currentMeta # None
  /\ currentMeta[1].size = stat.size
  /\ currentMeta[1].mtimeMs = stat.mtimeMs

\* The delay refresh() arms its timer with (no scan is running here).
RefreshDelayMs(isInitializing) ==
  IF isInitializing
  THEN (IF debounceDelay > 100 THEN debounceDelay ELSE 100)
  ELSE debounceDelay

\* ------------------------------------- batching of refresh notifications
\* The keys of the notification path on its own, and the delays queueUpdate
\* is called with (none, or one below the floor of 50 ms).
NotifyKeys == {"a", "b", "c"}
WatcherDelays == {None, Some(20)}

\* A refresh(resources) that forgets the keys that were pending.
AfterRefreshReplaces(B, ks, isInitializing) ==
  [pendingUpdates |-> ks, fullRefreshPending |-> B.fullRefreshPending,
   refreshTimer |-> [delay |-> RefreshDelayMs(isInitializing), live |-> TRUE,
                    elapsed |-> FALSE]]

\* The batching fields B of the provider after refresh(resources), ks being
\* the paths of the uris.
AfterRefresh(B, ks, isInitializing) ==
  LET added == B.pendingUpdates \cup ks
      overflow == ~B.fullRefreshPending /\ Cardinality(added) > PENDING_UPDATES_CAP
  IN [pendingUpdates |-> IF overflow THEN {} ELSE added,
      fullRefreshPending |-> (B.fullRefreshPending \/ overflow),
      refreshTimer |-> [delay |-> RefreshDelayMs(isInitializing), live |-> TRUE,
                    elapsed |-> FALSE]]

\* After refresh() without argument.
AfterRefreshAll(B, isInitializing) ==
  [pendingUpdates |-> {}, fullRefreshPending |-> TRUE,
   refreshTimer |-> [delay |-> RefreshDelayMs(isInitializing), live |-> TRUE,
                    elapsed |-> FALSE]]

\* An updateFromBuffer that adds the key and schedules nothing.
AfterUpdateFromBufferNoTimer(B, k) ==
  [B EXCEPT !.pendingUpdates = @ \cup {k}]

\* After updateFromBuffer(uri, lineCount) with lineCount > 0.
AfterUpdateFromBuffer(B, k) ==
  [B EXCEPT !.pendingUpdates = @ \cup {k},
            !.refreshTimer = [delay |-> debounceDelay, live |-> TRUE,
                              elapsed |-> FALSE]]

\* A flush that leaves one pending key out of the event.
FlushEventDropsOne(B) ==
  IF B.fullRefreshPending THEN Some([full |-> TRUE, keys |-> {}])
  ELSE IF B.pendingUpdates = {} THEN None
  ELSE Some([full |-> FALSE,
             keys |-> B.pendingUpdates \ {CHOOSE k \in B.pendingUpdates : TRUE}])

\* What flushUpdates fires: undefined (full), the pending uris, or nothing.
FlushEvent(B) ==
  IF B.fullRefreshPending THEN Some([full |-> TRUE, keys |-> {}])
  ELSE IF B.pendingUpdates = {} THEN None
  ELSE Some([full |-> FALSE, keys |-> B.pendingUpdates])

\* A flush that does not reset the full-refresh flag.
AfterFlushKeepsFlag(B) ==
  [B EXCEPT !.pendingUpdates = {}, !.refreshTimer.live = FALSE]

\* The batching fields after the timer fired and flushUpdates ran.
AfterFlushUpdates(B) ==
  [B EXCEPT !.fullRefreshPending = FALSE, !.pendingUpdates = {},
            !.refreshTimer.live = FALSE]

\* The three caches after refresh(resources): the entries of the paths ks
\* are deleted.
Purged(C, ks) ==
  [lineCountCache |-> C.lineCountCache \ ks,
   fileDecorations |-> C.fileDecorations \ ks,
   fileMetadataCache |-> C.fileMetadataCache \ ks]

\* queueUpdate: Math.max(50, delay ?? debounceDelay).
NormalizedDelay(delay) ==
  LET d == IF delay = None THEN debounceDelay ELSE delay[1]
  IN IF d > 50 THEN d ELSE 50

\* ----------------------------------------------------------- initialization
\* The scans, the numbers of candidate files findFiles can leave in a folder,
\* and a scan that has not been started.  A scan keeps the runId and the
\* workspaceFolders it captured; pc is the await it is suspended at: "delay"
\* (wait(initialScanDelay)), "find" (findFiles), "batch" (wait(60) after a
\* batch); submitted lists its calls of provider.refresh.
Scans == 1..MaxScans
FileCounts == {0, 3}
IdleScan == [pc |-> "idle", runId |-> 0, folders |-> 0, folder |-> 0, files |-> 0,
             i |-> 0, submitted |-> <<>>, outcome |-> "none"]

\* A cancelInitialization that leaves the run id alone.
CancelledKeepsEpoch(A) ==
  [A EXCEPT !.isInitializing = FALSE, !.initializationPromise = None]

\* cancelInitialization.
Cancelled(A) ==
  [initializationRunId |-> A.initializationRunId + 1, isInitializing |-> FALSE,
   initializationPromise |-> None]

\* runId !== state.initializationRunId
Superseded(A, c) == c.runId # A.initializationRunId

\* provider.refresh(batch) and provider.refresh() as entries of submitted.
BatchRequest(c) ==
  [full |-> FALSE, folder |-> c.folder, first |-> c.i,
   size |-> IF c.files - c.i < batchSize THEN c.files - c.i ELSE batchSize]

FullRequest == [full |-> TRUE, folder |-> 0, first |-> 0, size |-> 0]

\* A scan that returned with the given outcome; its locals are gone.
Returned(c, outcome) ==
  [c EXCEPT !.pc = "done", !.outcome = outcome, !.folder = 0, !.files = 0, !.i = 0]

\* The scan returns because it is superseded; its finally block does nothing.
Stopped(A, c) ==
  [appState |-> A, scan |-> Returned(c, "superseded")]

\* A scan that ends without the final refresh().
FinishedSilently(A, c) ==
  [appState |-> [A EXCEPT !.isInitializing = FALSE, !.initializationPromise = None],
   scan |-> Returned(c, "completed")]

\* The folder loop is over and the scan is current: refresh(), then the
\* finally block clears isInitializing and initializationPromise.
Finished(A, c) ==
  [appState |-> [A EXCEPT !.isInitializing = FALSE, !.initializationPromise = None],
   scan |-> [Returned(c, "completed") EXCEPT !.submitted = Append(@, FullRequest)]]

\* processBatchesWithDelay returned for folder c.folder: the head of the
\* folder loop for the next folder, or the end of the loop.
NextFolder(A, c) ==
  IF c.folder < c.folders
  THEN IF Superseded(A, c) THEN Stopped(A, c)
       ELSE [appState |-> A,
             scan |-> [c EXCEPT !.pc = "find", !.folder = @ + 1, !.files = 0, !.i = 0]]
  ELSE IF Superseded(A, c) THEN Stopped(A, c) ELSE Finished(A, c)

\* A batch loop that does not look at the run id.
BatchLoopIgnoresEpoch(A, c) ==
  IF c.i < c.files
  THEN [appState |-> A,
        scan |-> [c EXCEPT !.pc = "batch", !.submitted = Append(@, BatchRequest(c))]]
  ELSE NextFolder(A, c)

\* The head of the loop of processBatchesWithDelay at index c.i.
BatchLoop(A, c) ==
  IF c.i < c.files
  THEN IF Superseded(A, c) THEN NextFolder(A, c)
       ELSE [appState |-> A,
             scan |-> [c EXCEPT !.pc = "batch", !.submitted = Append(@, BatchRequest(c))]]
  ELSE NextFolder(A, c)

\* ------------------------------------------------- countLinesWithReadStream
\* The characters of a file (anything but a newline is "x") and the files.
Chars == {"x", "\n"}
Contents == UNION {[1..n -> Chars] : n \in 0..MaxChars}

\* The call before it is made.  stream is "none", "flowing", "ended",
\* "errored" or "destroyed"; timer is "none", "armed", "fired" or "cleared";
\* offset is how much of content the data events have delivered; handle is
\* the promise: None while pending, else how it settled; settlements counts
\* the calls of resolve and reject, chunks the data events that carried
\* characters.
NotReading ==
  [content |-> <<>>, offset |-> 0, stream |-> "none", timer |-> "none",
   settled |-> FALSE, lineCount |-> 0, sawAnyContent |-> FALSE,
   lastCharWasNewline |-> TRUE, handle |-> None, settlements |-> 0,
   chunks |-> 0]

\* The body of the data handler's loop for the character ch.
AfterChar(r, ch) ==
  IF ch = "\n"
  THEN [r EXCEPT !.lineCount = @ + 1, !.lastCharWasNewline = TRUE]
  ELSE [r EXCEPT !.lastCharWasNewline = FALSE]

\* The data handler for a chunk.
RECURSIVE AfterChunk(_, _)
AfterChunk(r, data) ==
  IF Len(data) = 0 THEN r
  ELSE AfterChunk(AfterChar([r EXCEPT !.sawAnyContent = TRUE], Head(data)), Tail(data))

\* An end handler that adds no line for an unterminated last line.
EndCountNoTrailingLine(r) == r.lineCount

\* What the end handler resolves with.
EndCount(r) ==
  IF r.sawAnyContent /\ ~r.lastCharWasNewline THEN r.lineCount + 1 ELSE r.lineCount

\* The two ways the handle settles: resolve(value) and reject(error).
Resolved(value) == [ok |-> TRUE, value |-> Some(value), error |-> ""]
Rejected(error) == [ok |-> FALSE, value |-> None, error |-> error]

\* A guard that lets every handler settle.
AlwaysMaySettle(r) == TRUE

\* if (!settled)
MaySettle(r) == ~r.settled

\* resolve(value) or reject(error) called: the first call settles the handle.
Settled(r, outcome) ==
  [r EXCEPT !.settled = TRUE,
            !.handle = IF @ = None THEN Some(outcome) ELSE @,
            !.settlements = @ + 1]

\* ------------------------------------------------------------------ timer.ts
\* A timer is its index in timeouts, the order of the scheduleTimeout calls.

\* A clearTrackedTimer that leaves the Set alone.
ClearTrackedKeepsEntry(active, timer) == active

\* clearTrackedTimer: activeTimers.delete(timer).
ClearTracked(active, timer) == active \ {timer}

\* clearTimeout(timer) by the host: only an armed timer is affected.
ClearTimeout(ts, timer) ==
  IF timer \in DOMAIN ts /\ ts[timer] = "armed"
  THEN [ts EXCEPT ![timer] = "cleared"] ELSE ts

\* ------------------------------------------------------------ formatLineCount
\* count.toString() for a natural number: its decimal digits.
DigitChars == <<"0", "1", "2", "3", "4", "5", "6", "7", "8", "9">>

RECURSIVE Decimal(_)
Decimal(n) ==
  IF n < 10 THEN <<DigitChars[n + 1]>>
  ELSE Append(Decimal(n \div 10), DigitChars[(n % 10) + 1])

\* formatLineCount(count), as the sequence of the badge's characters.
formatLineCount(count) ==
  IF count >= 1000000 THEN Append(Decimal(count \div 1000000), "M")
  ELSE IF count >= 1000 THEN Append(Decimal(count \div 1000), "K")
  ELSE IF count >= 100 THEN Append(Decimal(count \div 100), "H")
  ELSE Decimal(count)

\* The counts formatted: every small one and some around the larger tiers.
FormatCounts ==
  (0..MaxPlainCount) \cup {9999, 10000, 999999, 1000000, 2500000, 999999999}

NoStat == [isFile |-> FALSE, size |-> 0, mtimeMs |-> 0]
IdleCall == [pc |-> "idle", key |-> "a", stat |-> NoStat, awaits |-> 0,
             disturbed |-> FALSE]
FreeTask == [state |-> "free", key |-> "a", stat |-> NoStat, count |-> 0]

Init ==
  /\ fs = [k \in Keys |-> [isFile |-> TRUE, size |-> 120, mtimeMs |-> 0]]
  /\ fileMetadataCache = <<>>
  /\ lineCountCache = <<>>
  /\ fileDecorations = <<>>
  /\ processingQueue = [k \in Keys |-> 0]
  /\ pendingUpdates = {}
  /\ fullRefreshPending = FALSE
  /\ refreshTimer = [delay |-> 0, live |-> FALSE]
  /\ fired = None
  /\ running = 0
  /\ queue = <<>>
  /\ tasks = [t \in Resolves |-> FreeTask]
  /\ calls = [r \in Resolves |-> IdleCall]
  /\ returned = {}
  /\ used = 0
  /\ limiter = NoLimiter
  /\ units = [u \in Units |-> NewUnit]
  /\ started = <<>>
  /\ enqueued = <<>>
  /\ batcher = [pendingUpdates |-> {}, fullRefreshPending |-> FALSE,
                refreshTimer |-> [delay |-> 0, live |-> FALSE, elapsed |-> FALSE]]
  /\ funnel = [pendingWatcherUpdates |-> {}, watcherQueueTimer |-> FALSE,
               watcherQueueDelayMs |-> 0, elapsed |-> FALSE]
  /\ emitted = None
  /\ forwarded = None
  /\ since = [keys |-> {}, full |-> FALSE, overflow |-> FALSE, calls |-> 0,
              flushed |-> FALSE, queued |-> {}, delays |-> {}]
  /\ ops = 0
  /\ appState = [initializationRunId |-> 0, isInitializing |-> FALSE,
                 initializationPromise |-> None]
  /\ scans = [s \in Scans |-> IdleScan]
  /\ lru = [constructed |-> FALSE, halves |-> 0, maxSize |-> 1, map |-> <<>>]
  /\ recency = <<>>
  /\ lastOp = [op |-> "none", key |-> "", value |-> None, evicted |-> {},
               held |-> FALSE]
  /\ workspace = [isTrusted |-> FALSE]
  /\ extension = [activated |-> FALSE, commands |-> 0]
  /\ reading = NotReading
  /\ activeTimers = {}
  /\ timeouts = <<>>
  /\ callbacks = <<>>
  /\ badge = None
  /\ caches = [lineCountCache |-> {}, fileDecorations |-> {}, fileMetadataCache |-> {}]

\* What a call that returns hands to the host: ret is the decoration or
\* undefined; via names the return statement; buf tells that the count behind
\* the decoration was written by updateFromBuffer.
Result(c, ret, via, buf) ==
  [key |-> c.key, stat |-> c.stat, ret |-> ret, via |-> via, buf |-> buf,
   disturbed |-> c.disturbed]

\* History: a call that is awaiting a count notes that the metadata of its key
\* was removed or replaced by a different fingerprint meanwhile.
MarkDisturbed(newCalls, newMeta) ==
  [r \in Resolves |->
     IF /\ calls[r].pc = "await"
        /\ newCalls[r].pc = "await"
        /\ LRUPeek(newMeta, calls[r].key) # LRUPeek(fileMetadataCache, calls[r].key)
     THEN [newCalls[r] EXCEPT !.disturbed = TRUE]
     ELSE newCalls[r]]

\* ------------------------------------------------------------ environment
\* The file is written: new size, later mtime.
FileWrite(k) ==
  /\ used < MaxEvents
  /\ \E s \in Sizes :
       fs' = [fs EXCEPT ![k] = [isFile |-> TRUE, size |-> s, mtimeMs |-> fs[k].mtimeMs + 1]]
  /\ fired' = None
  /\ returned' = {}
  /\ used' = used + 1
  /\ UNCHANGED <<fileMetadataCache, lineCountCache, fileDecorations, processingQueue,
                 pendingUpdates, fullRefreshPending, refreshTimer, running,
                 queue, tasks, calls>>
  /\ UNCHANGED exceptProvider

\* The file is removed, or replaced by something that is not a regular file.
FileDelete(k) ==
  /\ fs[k].isFile
  /\ used < MaxEvents
  /\ fs' = [fs EXCEPT ![k] = [isFile |-> FALSE, size |-> 0, mtimeMs |-> fs[k].mtimeMs]]
  /\ used' = used + 1
  /\ fired' = None
  /\ returned' = {}
  /\ UNCHANGED <<fileMetadataCache, lineCountCache, fileDecorations, processingQueue,
                 pendingUpdates, fullRefreshPending, refreshTimer, running,
                 queue, tasks, calls>>
  /\ UNCHANGED exceptProvider

\* ------------------------------------------------- provideFileDecoration
\* The host calls provideFileDecoration(uri); fs.promises.stat is issued and
\* its result is what the disk shows at that moment.
Call(r, k) ==
  /\ calls[r].pc = "idle"
  /\ \A q \in Resolves : q < r => calls[q].pc # "idle"
  /\ used < MaxEvents
  /\ calls' = [calls EXCEPT ![r] =
        [pc |-> "stat", key |-> k,
         stat |-> IF fs[k].isFile THEN fs[k] ELSE NoStat,
         awaits |-> 0, disturbed |-> FALSE]]
  /\ used' = used + 1
  /\ fired' = None
  /\ returned' = {}
  /\ UNCHANGED <<fs, fileMetadataCache, lineCountCache, fileDecorations,
                 processingQueue, pendingUpdates, fullRefreshPending, refreshTimer,
                 running, queue, tasks>>
  /\ UNCHANGED exceptProvider

\* stat failed or the path is not a regular file: return undefined.
StatNotFound(r) ==
  /\ calls[r].pc = "stat"
  /\ ~calls[r].stat.isFile
  /\ calls' = [calls EXCEPT ![r] = IdleCall]
  /\ returned' = {Result(calls[r], None, "notfound", FALSE)}
  /\ fired' = None
  /\ UNCHANGED <<used, fs, fileMetadataCache, lineCountCache, fileDecorations,
                 processingQueue, pendingUpdates, fullRefreshPending, refreshTimer,
                 running, queue, tasks>>
  /\ UNCHANGED exceptProvider

\* Cache hit: both get() calls promote, the decoration is reused or rebuilt.
StatCacheHit(r) ==
  LET k == calls[r].key
      stat == calls[r].stat
      cachedMetadata == LRUGet(fileMetadataCache, k)
      cachedCount == LRUGet(lineCountCache, k)
      stored == LRUGet(fileDecorations, k)
      cachedDecoration ==
        IF stored.value # None THEN stored.value[1]
        ELSE createLineDecoration(cachedCount.value[1].n, stat.size > sizeLimit)
  IN
  /\ calls[r].pc = "stat"
  /\ stat.isFile
  /\ CacheHit(cachedMetadata.value, cachedCount.value, stat)
  /\ fileMetadataCache' = cachedMetadata.cache
  /\ lineCountCache' = cachedCount.cache
  /\ fileDecorations' = LRUSet(stored.cache, CacheMaxSize, k, cachedDecoration)
  /\ calls' = [calls EXCEPT ![r] = IdleCall]
  /\ returned' = {Result(calls[r], Some(cachedDecoration), "hit",
                          cachedCount.value[1].buf)}
  /\ fired' = None
  /\ UNCHANGED <<used, fs, processingQueue, pendingUpdates, fullRefreshPending,
                 refreshTimer, running, queue, tasks>>
  /\ UNCHANGED exceptProvider

\* The miss path up to the size shortcuts: both get() calls have promoted and
\* the new fingerprint is committed before anything is computed.
MissCommitted(r) ==
  LRUSet(LRUGet(fileMetadataCache, calls[r].key).cache, CacheMaxSize,
         calls[r].key, Fingerprint(calls[r].stat))

IsMiss(r) ==
  /\ calls[r].pc = "stat"
  /\ calls[r].stat.isFile
  /\ ~CacheHit(LRUGet(fileMetadataCache, calls[r].key).value,
               LRUGet(lineCountCache, calls[r].key).value, calls[r].stat)

\* An empty file counts 0 without reading.
StatZeroSize(r) ==
  LET k == calls[r].key
      meta == MissCommitted(r)
      zeroDecoration == createLineDecoration(0, FALSE)
  IN
  /\ IsMiss(r)
  /\ calls[r].stat.size = 0
  /\ fileMetadataCache' = meta
  /\ lineCountCache' = LRUSet(LRUGet(lineCountCache, k).cache, CacheMaxSize, k,
                              [n |-> 0, buf |-> FALSE])
  /\ fileDecorations' = LRUSet(fileDecorations, CacheMaxSize, k, zeroDecoration)
  /\ calls' = MarkDisturbed([calls EXCEPT ![r] = IdleCall], meta)
  /\ returned' = {Result(calls[r], Some(zeroDecoration), "zero", FALSE)}
  /\ fired' = None
  /\ UNCHANGED <<used, fs, processingQueue, pendingUpdates, fullRefreshPending,
                 refreshTimer, running, queue, tasks>>
  /\ UNCHANGED exceptProvider

\* A file above sizeLimit is estimated from its size.
StatEstimate(r) ==
  LET k == calls[r].key
      meta == MissCommitted(r)
      estimatedLineCount == EstimatedLineCount(calls[r].stat.size)
      estimatedDecoration == createLineDecoration(estimatedLineCount, TRUE)
  IN
  /\ IsMiss(r)
  /\ calls[r].stat.size # 0
  /\ calls[r].stat.size > sizeLimit
  /\ fileMetadataCache' = meta
  /\ lineCountCache' = LRUSet(LRUGet(lineCountCache, k).cache, CacheMaxSize, k,
                              [n |-> estimatedLineCount, buf |-> FALSE])
  /\ fileDecorations' = LRUSet(fileDecorations, CacheMaxSize, k, estimatedDecoration)
  /\ calls' = MarkDisturbed([calls EXCEPT ![r] = IdleCall], meta)
  /\ returned' = {Result(calls[r], Some(estimatedDecoration), "estimate", FALSE)}
  /\ fired' = None
  /\ UNCHANGED <<used, fs, processingQueue, pendingUpdates, fullRefreshPending,
                 refreshTimer, running, queue, tasks>>
  /\ UNCHANGED exceptProvider

NeedsCount(r) ==
  /\ IsMiss(r)
  /\ calls[r].stat.size # 0
  /\ ~(calls[r].stat.size > sizeLimit)

\* A count for the key is in flight: await its promise.
StatJoin(r) ==
  LET k == calls[r].key
      meta == MissCommitted(r)
  IN
  /\ NeedsCount(r)
  /\ processingQueue[k] # 0
  /\ fileMetadataCache' = meta
  /\ lineCountCache' = LRUGet(lineCountCache, k).cache
  /\ calls' = MarkDisturbed(
       [calls EXCEPT ![r] = [calls[r] EXCEPT !.pc = "await",
                                             !.awaits = processingQueue[k]]], meta)
  /\ returned' = {}
  /\ fired' = None
  /\ UNCHANGED <<used, fs, fileDecorations, processingQueue, pendingUpdates,
                 fullRefreshPending, refreshTimer, running, queue, tasks>>
  /\ UNCHANGED exceptProvider

\* No count in flight and a free slot: limiter.run starts countLines at once,
\* which commits the stat again and opens the stream.
StatSubmitStart(r) ==
  LET k == calls[r].key
      meta == CountLinesStart(MissCommitted(r), k, calls[r].stat)
  IN
  /\ NeedsCount(r)
  /\ processingQueue[k] = 0
  /\ RunOutcome(running, queue) = "start"
  /\ running' = running + 1
  /\ tasks' = [tasks EXCEPT ![r] = [state |-> "running", key |-> k,
                                    stat |-> calls[r].stat, count |-> 0]]
  /\ processingQueue' = [processingQueue EXCEPT ![k] = r]
  /\ fileMetadataCache' = meta
  /\ lineCountCache' = LRUGet(lineCountCache, k).cache
  /\ calls' = MarkDisturbed(
       [calls EXCEPT ![r] = [calls[r] EXCEPT !.pc = "await", !.awaits = r]], meta)
  /\ returned' = {}
  /\ fired' = None
  /\ UNCHANGED <<used, fs, fileDecorations, pendingUpdates, fullRefreshPending,
                 refreshTimer, queue>>
  /\ UNCHANGED exceptProvider

\* No count in flight and no free slot: the unit waits in the limiter's queue.
StatSubmitQueue(r) ==
  LET k == calls[r].key
      meta == MissCommitted(r)
  IN
  /\ NeedsCount(r)
  /\ processingQueue[k] = 0
  /\ RunOutcome(running, queue) = "queue"
  /\ queue' = Append(queue, r)
  /\ tasks' = [tasks EXCEPT ![r] = [state |-> "queued", key |-> k,
                                    stat |-> calls[r].stat, count |-> 0]]
  /\ processingQueue' = [processingQueue EXCEPT ![k] = r]
  /\ fileMetadataCache' = meta
  /\ lineCountCache' = LRUGet(lineCountCache, k).cache
  /\ calls' = MarkDisturbed(
       [calls EXCEPT ![r] = [calls[r] EXCEPT !.pc = "await", !.awaits = r]], meta)
  /\ returned' = {}
  /\ fired' = None
  /\ UNCHANGED <<used, fs, fileDecorations, pendingUpdates, fullRefreshPending,
                 refreshTimer, running>>
  /\ UNCHANGED exceptProvider

\* The limiter's queue is full: run() rejects, the catch handler removes the
\* registry entry and yields 0, and the call drops the decoration and returns.
StatSubmitReject(r) ==
  LET k == calls[r].key
      meta == MissCommitted(r)
  IN
  /\ NeedsCount(r)
  /\ processingQueue[k] = 0
  /\ RunOutcome(running, queue) = "reject"
  /\ fileMetadataCache' = meta
  /\ lineCountCache' = LRUGet(lineCountCache, k).cache
  /\ fileDecorations' = LRUDelete(fileDecorations, k)
  /\ calls' = MarkDisturbed([calls EXCEPT ![r] = IdleCall], meta)
  /\ returned' = {Result(calls[r], None, "queuefull", FALSE)}
  /\ fired' = None
  /\ UNCHANGED <<used, fs, processingQueue, pendingUpdates, fullRefreshPending,
                 refreshTimer, running, queue, tasks>>
  /\ UNCHANGED exceptProvider

\* provideFileDecoration from the completion of stat to its return or to the
\* await of the count.
StatDone(r) ==
  \/ StatNotFound(r)
  \/ StatCacheHit(r)
  \/ StatZeroSize(r)
  \/ StatEstimate(r)
  \/ StatJoin(r)
  \/ StatSubmitStart(r)
  \/ StatSubmitQueue(r)
  \/ StatSubmitReject(r)

\* -------------------------------------------------------------- countLines
\* The stream of a running unit delivers the file as it is on disk now.
TaskRead(t) ==
  /\ tasks[t].state = "running"
  /\ fs[tasks[t].key].isFile
  /\ tasks' = [tasks EXCEPT ![t].state = "read",
                            ![t].count = ContentLines(fs[tasks[t].key])]
  /\ fired' = None
  /\ returned' = {}
  /\ UNCHANGED <<used, fs, fileMetadataCache, lineCountCache, fileDecorations,
                 processingQueue, pendingUpdates, fullRefreshPending, refreshTimer,
                 running, queue, calls>>
  /\ UNCHANGED exceptProvider

\* The unit of task t has settled with lineCount, the caches being meta0, line0
\* and deco0 by then. In order: the limiter decrements running and dequeues
\* (the next unit starts and commits its stat), the provider's handler removes
\* the registry entry of the key, and every call awaiting the promise resumes.
Settle(t, lineCount, meta0, line0, deco0, zeroVia) ==
  LET k == tasks[t].key
      dq == CanDequeue(running - 1, queue)
      next == Head(queue)
      meta1 == IF dq
               THEN CountLinesStart(meta0, tasks[next].key, tasks[next].stat)
               ELSE meta0
      waiters == {r \in Resolves : calls[r].pc = "await" /\ calls[r].awaits = t}
      currentMeta == LRUGet(meta1, k)
      fresh(r) == StillCurrent(currentMeta.value, calls[r].stat)
      anyFresh == \E r \in waiters : fresh(r)
      decoration == createLineDecoration(lineCount, FALSE)
      meta2 == IF lineCount <= 0 THEN meta1 ELSE currentMeta.cache
      result(r) == IF lineCount <= 0 THEN Result(calls[r], None, zeroVia, FALSE)
                   ELSE IF fresh(r)
                   THEN Result(calls[r], Some(decoration), "counted", FALSE)
                   ELSE Result(calls[r], None, "stale", FALSE)
      resumed == [r \in Resolves |-> IF r \in waiters THEN IdleCall ELSE calls[r]]
  IN
  /\ running' = IF dq THEN running ELSE running - 1
  /\ queue' = IF dq THEN Tail(queue) ELSE queue
  /\ tasks' = [x \in Resolves |->
                 IF x = t THEN FreeTask
                 ELSE IF dq /\ x = next THEN [tasks[x] EXCEPT !.state = "running"]
                 ELSE tasks[x]]
  /\ processingQueue' = [processingQueue EXCEPT ![k] = 0]
  /\ fileMetadataCache' = meta2
  /\ lineCountCache' =
       IF lineCount > 0 /\ anyFresh
       THEN LRUSet(line0, CacheMaxSize, k, [n |-> lineCount, buf |-> FALSE])
       ELSE line0
  /\ fileDecorations' =
       IF lineCount <= 0 THEN LRUDelete(deco0, k)
       ELSE IF anyFresh THEN LRUSet(deco0, CacheMaxSize, k, decoration)
       ELSE deco0
  /\ calls' = MarkDisturbed(resumed, meta2)
  /\ returned' = {result(r) : r \in waiters}
  /\ fired' = None

\* The stream ended: countLines resolves with the count it read.
TaskSettle(t) ==
  /\ tasks[t].state = "read"
  /\ Settle(t, tasks[t].count, fileMetadataCache, lineCountCache, fileDecorations,
            "zerocount")
  /\ UNCHANGED <<fs, pendingUpdates, fullRefreshPending, refreshTimer, used>>
  /\ UNCHANGED exceptProvider

\* The stream failed or timed out: the catch block of countLines purges the
\* three caches for the key and resolves with 0.
TaskFail(t) ==
  /\ tasks[t].state \in {"running", "read"}
  /\ Settle(t, 0, Purge(fileMetadataCache, tasks[t].key),
            Purge(lineCountCache, tasks[t].key),
            Purge(fileDecorations, tasks[t].key), "readerror")
  /\ UNCHANGED <<fs, pendingUpdates, fullRefreshPending, refreshTimer, used>>
  /\ UNCHANGED exceptProvider

\* ----------------------------------------------------- refresh and friends
\* refresh(resources) for one uri or an array of uris, ks being their paths
\* (no caller passes an empty array).
Refresh(ks) ==
  LET added == pendingUpdates \cup ks
      overflow == ~fullRefreshPending /\ Cardinality(added) > PENDING_UPDATES_CAP
      meta == SelectSeq(fileMetadataCache, LAMBDA e : e.k \notin ks)
  IN
  /\ used < MaxEvents
  /\ used' = used + 1
  /\ fired' = None
  /\ returned' = {}
  /\ pendingUpdates' = IF overflow THEN {} ELSE added
  /\ fullRefreshPending' = (fullRefreshPending \/ overflow)
  /\ processingQueue' = [k \in Keys |-> IF k \in ks THEN 0 ELSE processingQueue[k]]
  /\ lineCountCache' = SelectSeq(lineCountCache, LAMBDA e : e.k \notin ks)
  /\ fileDecorations' = SelectSeq(fileDecorations, LAMBDA e : e.k \notin ks)
  /\ fileMetadataCache' = meta
  /\ refreshTimer' = [delay |-> RefreshDelayMs(FALSE), live |-> TRUE]
  /\ calls' = MarkDisturbed(calls, meta)
  /\ UNCHANGED <<fs, running, queue, tasks>>
  /\ UNCHANGED exceptProvider

\* refresh() without argument.
RefreshAll ==
  /\ used < MaxEvents
  /\ used' = used + 1
  /\ fired' = None
  /\ returned' = {}
  /\ fullRefreshPending' = TRUE
  /\ pendingUpdates' = {}
  /\ refreshTimer' = [delay |-> RefreshDelayMs(FALSE), live |-> TRUE]
  /\ UNCHANGED <<fs, fileMetadataCache, lineCountCache, fileDecorations,
                 processingQueue, running, queue, tasks, calls>>
  /\ UNCHANGED exceptProvider

\* updateFromBuffer(uri, lineCount).
UpdateFromBuffer(k, lineCount) ==
  /\ used < MaxEvents
  /\ IF lineCount <= 0
     THEN UNCHANGED vars
     ELSE
       /\ used' = used + 1
       /\ fired' = None
       /\ returned' = {}
       /\ lineCountCache' = LRUSet(lineCountCache, CacheMaxSize, k,
                                   [n |-> lineCount, buf |-> TRUE])
       /\ fileDecorations' = LRUSet(fileDecorations, CacheMaxSize, k,
                                    createLineDecoration(lineCount, FALSE))
       /\ pendingUpdates' = pendingUpdates \cup {k}
       /\ refreshTimer' = [delay |-> debounceDelay, live |-> TRUE]
       /\ UNCHANGED <<fs, fileMetadataCache, processingQueue, fullRefreshPending,
                      running, queue, tasks, calls>>
  /\ UNCHANGED exceptProvider

\* The refresh timer fires: flushUpdates.
FlushUpdates ==
  /\ refreshTimer.live
  /\ refreshTimer' = [refreshTimer EXCEPT !.live = FALSE]
  /\ IF fullRefreshPending
     THEN /\ fullRefreshPending' = FALSE
          /\ pendingUpdates' = {}
          /\ fired' = Some([full |-> TRUE, keys |-> {}])
     ELSE IF pendingUpdates = {}
     THEN /\ fired' = None
          /\ UNCHANGED <<fullRefreshPending, pendingUpdates>>
     ELSE /\ pendingUpdates' = {}
          /\ fired' = Some([full |-> FALSE, keys |-> pendingUpdates])
          /\ UNCHANGED fullRefreshPending
  /\ returned' = {}
  /\ UNCHANGED <<fs, fileMetadataCache, lineCountCache, fileDecorations,
                 processingQueue, running, queue, tasks, calls, used>>
  /\ UNCHANGED exceptProvider

Next ==
  \/ \E k \in Keys : FileWrite(k)
  \/ \E k \in Keys : FileDelete(k)
  \/ \E r \in Resolves, k \in Keys : Call(r, k)
  \/ \E r \in Resolves : StatDone(r)
  \/ \E t \in Resolves : TaskRead(t)
  \/ \E t \in Resolves : TaskSettle(t)
  \/ \E t \in Resolves : TaskFail(t)
  \/ \E ks \in SUBSET Keys \ {{}} : Refresh(ks)
  \/ RefreshAll
  \/ \E k \in Keys, n \in BufferCounts : UpdateFromBuffer(k, n)
  \/ FlushUpdates

Spec == Init /\ [][Next]_vars

\* ------------------------------------------- the ConcurrencyLimiter on its own
\* new ConcurrencyLimiter(mc, mq).
Construct(mc, mq) ==
  /\ ~limiter.constructed
  /\ limiter' = [constructed |-> TRUE, maxConcurrent |-> ClampLimit(mc),
                 maxQueued |-> ClampLimit(mq), running |-> 0, queue |-> <<>>]
  /\ UNCHANGED <<units, started, enqueued>>
  /\ UNCHANGED exceptLimiter

\* run(fn) for unit u, kind telling what fn() will do.
Run(u, kind) ==
  LET U == [units EXCEPT ![u] = [state |-> "queued", kind |-> kind,
                                 handle |-> "pending"]]
      now == Execute(u, limiter, U, started)
  IN
  /\ limiter.constructed
  /\ units[u].state = "new"
  /\ \A v \in Units : v < u => units[v].state # "new"
  /\ CASE LimiterRunOutcome(limiter) = "start" ->
            /\ limiter' = now.limiter
            /\ units' = now.units
            /\ started' = now.started
            /\ UNCHANGED enqueued
       [] LimiterRunOutcome(limiter) = "queue" ->
            /\ limiter' = [limiter EXCEPT !.queue = Append(@, u)]
            /\ units' = U
            /\ enqueued' = Append(enqueued, u)
            /\ UNCHANGED started
       [] OTHER ->
            /\ units' = [units EXCEPT ![u] = [state |-> "done", kind |-> kind,
                                              handle |-> "queuefull"]]
            /\ UNCHANGED <<limiter, started, enqueued>>
  /\ UNCHANGED exceptLimiter

\* The promise fn() returned settles: the then-handlers of execute().
Complete(u) ==
  LET U == [units EXCEPT ![u] =
              [@ EXCEPT !.state = "done",
                        !.handle = IF units[u].kind = "resolves"
                                   THEN "resolved" ELSE "rejected"]]
      now == Dequeue(Decremented(limiter), U, started)
  IN
  /\ units[u].state = "running"
  /\ limiter' = now.limiter
  /\ units' = now.units
  /\ started' = now.started
  /\ UNCHANGED enqueued
  /\ UNCHANGED exceptLimiter

LimiterNext ==
  \/ \E mc, mq \in 0..MaxLimitArg : Construct(mc, mq)
  \/ \E u \in Units, kind \in UnitKinds : Run(u, kind)
  \/ \E u \in Units : Complete(u)

LimiterSpec == Init /\ [][LimiterNext]_vars

\* Every started unit settles.
LimiterFairSpec == LimiterSpec /\ \A u \in Units : WF_vars(Complete(u))

\* --------------------------------------- the notification path on its own
\* The watcher queue (queueUpdate, flushQueuedWatcherUpdates) and the
\* provider's batching (refresh, updateFromBuffer, flushUpdates), without the
\* caches: the caches do not decide what is announced.  Every step says in
\* emitted what onDidChangeFileDecorations fired and in forwarded what the
\* watcher queue handed to provider.refresh.

\* since describes the window of the batcher that is open, or the one the
\* last flush closed until the next call opens a new one: the keys added to
\* the batcher, the number of calls that added them, whether refresh() was
\* called and whether an addition overflowed the cap.  Its fields queued and
\* delays hold the keys the watcher queue took since it last handed on and
\* the delays (after the floor of 50 ms) they were queued with.
Window ==
  IF since.flushed
  THEN [since EXCEPT !.keys = {}, !.full = FALSE, !.overflow = FALSE,
                     !.calls = 0, !.flushed = FALSE]
  ELSE since

\* The window once the batcher took the keys ks and became B.  The count of
\* calls stops at MaxNotifyOps.
Took(ks, B) ==
  [Window EXCEPT !.keys = @ \cup ks,
                 !.calls = IF @ < MaxNotifyOps THEN @ + 1 ELSE @,
                 !.overflow = @ \/ (~batcher.fullRefreshPending /\ B.fullRefreshPending)]

\* refresh(resources) called directly: a batch of the initial scan, or the
\* uri of a deleted file.  No caller passes an empty array.
RefreshCalled(ks, isInitializing) ==
  /\ ks # {}
  /\ batcher' = AfterRefresh(batcher, ks, isInitializing)
  /\ since' = Took(ks, batcher')
  /\ emitted' = None
  /\ forwarded' = None
  /\ UNCHANGED funnel
  /\ UNCHANGED exceptNotify

\* The same, as one of at most MaxNotifyOps calls from outside.
NotifyRefresh(ks, isInitializing) ==
  /\ ops < MaxNotifyOps
  /\ ops' = ops + 1
  /\ RefreshCalled(ks, isInitializing)

\* refresh() called directly.
RefreshAllCalled(isInitializing) ==
  /\ batcher' = AfterRefreshAll(batcher, isInitializing)
  /\ since' = [Window EXCEPT !.full = TRUE]
  /\ emitted' = None
  /\ forwarded' = None
  /\ UNCHANGED funnel
  /\ UNCHANGED exceptNotify

NotifyRefreshAll(isInitializing) ==
  /\ ops < MaxNotifyOps
  /\ ops' = ops + 1
  /\ RefreshAllCalled(isInitializing)

\* updateFromBuffer(uri, lineCount) with lineCount > 0.
UpdateFromBufferCalled(k) ==
  /\ batcher' = AfterUpdateFromBuffer(batcher, k)
  /\ since' = Took({k}, batcher')
  /\ emitted' = None
  /\ forwarded' = None
  /\ UNCHANGED funnel
  /\ UNCHANGED exceptNotify

NotifyUpdateFromBuffer(k) ==
  /\ ops < MaxNotifyOps
  /\ ops' = ops + 1
  /\ UpdateFromBufferCalled(k)

\* The refresh timer fires: flushUpdates.
NotifyFlushUpdates ==
  /\ batcher.refreshTimer.live
  /\ batcher.refreshTimer.elapsed
  /\ emitted' = FlushEvent(batcher)
  /\ batcher' = AfterFlushUpdates(batcher)
  /\ since' = [since EXCEPT !.flushed = TRUE]
  /\ forwarded' = None
  /\ UNCHANGED <<funnel, ops>>
  /\ UNCHANGED exceptNotify

\* queueUpdate(uri, delay) for a uri of scheme file.
QueueUpdateCalled(k, delay, isInitializing) ==
  /\ emitted' = None
  /\ LET added == funnel.pendingWatcherUpdates \cup {k}
         normalizedDelay == NormalizedDelay(delay)
     IN IF Cardinality(added) > WATCHER_QUEUE_CAP
        THEN /\ funnel' = [pendingWatcherUpdates |-> {}, watcherQueueTimer |-> FALSE,
                           watcherQueueDelayMs |-> 0, elapsed |-> FALSE]
             /\ batcher' = AfterRefreshAll(batcher, isInitializing)
             /\ forwarded' = Some([full |-> TRUE, keys |-> {}])
             /\ since' = [Window EXCEPT !.full = TRUE, !.queued = {}, !.delays = {}]
        ELSE /\ funnel' =
                  IF ~funnel.watcherQueueTimer
                       \/ normalizedDelay < funnel.watcherQueueDelayMs
                  THEN [pendingWatcherUpdates |-> added, watcherQueueTimer |-> TRUE,
                        watcherQueueDelayMs |-> normalizedDelay, elapsed |-> FALSE]
                  ELSE [funnel EXCEPT !.pendingWatcherUpdates = added]
             /\ forwarded' = None
             /\ since' = [since EXCEPT !.queued = @ \cup {k},
                                       !.delays = @ \cup {normalizedDelay}]
             /\ UNCHANGED batcher
  /\ UNCHANGED exceptNotify

QueueUpdate(k, delay, isInitializing) ==
  /\ ops < MaxNotifyOps
  /\ ops' = ops + 1
  /\ QueueUpdateCalled(k, delay, isInitializing)

\* The watcher queue's timer fires: flushQueuedWatcherUpdates.
WatcherQueueFlushed(isInitializing) ==
  /\ funnel.watcherQueueTimer
  /\ funnel.elapsed
  /\ funnel' = [pendingWatcherUpdates |-> {}, watcherQueueTimer |-> FALSE,
                watcherQueueDelayMs |-> 0, elapsed |-> FALSE]
  /\ emitted' = None
  /\ IF funnel.pendingWatcherUpdates = {}
     THEN /\ forwarded' = None
          /\ since' = [since EXCEPT !.queued = {}, !.delays = {}]
          /\ UNCHANGED batcher
     ELSE /\ batcher' = AfterRefresh(batcher, funnel.pendingWatcherUpdates, isInitializing)
          /\ forwarded' = Some([full |-> FALSE, keys |-> funnel.pendingWatcherUpdates])
          /\ since' = [Took(funnel.pendingWatcherUpdates, batcher')
                          EXCEPT !.queued = {}, !.delays = {}]
  /\ UNCHANGED ops

\* The same beside the batching alone: the caches are left out.
FlushQueuedWatcherUpdates(isInitializing) ==
  /\ WatcherQueueFlushed(isInitializing)
  /\ UNCHANGED exceptNotify

\* Time passes: every timer that scheduleTimeout armed and that has not
\* fired has run for a while.  A timer fires only after time has passed (no
\* delay of the two queues is 0); one that is cleared and scheduled again
\* starts from the beginning.
TimePasses ==
  /\ \/ (batcher.refreshTimer.live /\ ~batcher.refreshTimer.elapsed)
     \/ (funnel.watcherQueueTimer /\ ~funnel.elapsed)
  /\ batcher' = [batcher EXCEPT !.refreshTimer.elapsed = @ \/ batcher.refreshTimer.live]
  /\ funnel' = [funnel EXCEPT !.elapsed = @ \/ funnel.watcherQueueTimer]
  /\ emitted' = None
  /\ forwarded' = None
  /\ UNCHANGED <<since, ops>>
  /\ UNCHANGED exceptNotify

NotifyNext ==
  \/ \E ks \in SUBSET NotifyKeys, i \in BOOLEAN : NotifyRefresh(ks, i)
  \/ \E i \in BOOLEAN : NotifyRefreshAll(i)
  \/ \E k \in NotifyKeys : NotifyUpdateFromBuffer(k)
  \/ NotifyFlushUpdates
  \/ \E k \in NotifyKeys, d \in WatcherDelays, i \in BOOLEAN : QueueUpdate(k, d, i)
  \/ \E i \in BOOLEAN : FlushQueuedWatcherUpdates(i)
  \/ TimePasses

NotifySpec == Init /\ [][NotifyNext]_vars

\* The notification path with calls from outside without end.  A timer that
\* stays due fires, and time passes for a timer that stays armed; a timer
\* that is cleared and scheduled again before it fires need not fire.
NotifyLiveNext ==
  \/ \E ks \in SUBSET NotifyKeys, i \in BOOLEAN : RefreshCalled(ks, i) /\ UNCHANGED ops
  \/ \E i \in BOOLEAN : RefreshAllCalled(i) /\ UNCHANGED ops
  \/ \E k \in NotifyKeys : UpdateFromBufferCalled(k) /\ UNCHANGED ops
  \/ NotifyFlushUpdates
  \/ \E k \in NotifyKeys, d \in WatcherDelays, i \in BOOLEAN :
        QueueUpdateCalled(k, d, i) /\ UNCHANGED ops
  \/ \E i \in BOOLEAN : FlushQueuedWatcherUpdates(i)
  \/ TimePasses

NotifyLiveSpec ==
  /\ Init
  /\ [][NotifyLiveNext]_vars
  /\ WF_vars(NotifyFlushUpdates)
  /\ WF_vars(\E i \in BOOLEAN : FlushQueuedWatcherUpdates(i))
  /\ WF_vars(TimePasses)

\* --------------------------------------------- the watcher queue and the caches
\* The watcher queue beside the three caches: what queueUpdate takes is
\* handed to provider.refresh, which deletes the cache entries of the paths
\* it is given.

\* provideFileDecoration(k) for an empty file or one above sizeLimit: the
\* metadata, the count and the decoration of k are stored in one turn.
Decorated(k) ==
  /\ caches' = [lineCountCache |-> caches.lineCountCache \cup {k},
                fileDecorations |-> caches.fileDecorations \cup {k},
                fileMetadataCache |-> caches.fileMetadataCache \cup {k}]
  /\ UNCHANGED exceptCache

\* queueUpdate(uri, delay): below the cap it touches the queue only, above
\* it calls provider.refresh() without resources, which deletes no entry.
WatcherQueueUpdate(k, delay, isInitializing) ==
  /\ QueueUpdateCalled(k, delay, isInitializing)
  /\ UNCHANGED ops

\* The watcher queue's timer fires: flushQueuedWatcherUpdates, with the
\* deletions of provider.refresh(updates).
WatcherFlush(isInitializing) ==
  /\ WatcherQueueFlushed(isInitializing)
  /\ caches' = Purged(caches, funnel.pendingWatcherUpdates)
  /\ UNCHANGED exceptWatcher

WatcherNext ==
  \/ \E k \in NotifyKeys : Decorated(k)
  \/ \E k \in NotifyKeys, d \in WatcherDelays, i \in BOOLEAN : WatcherQueueUpdate(k, d, i)
  \/ \E i \in BOOLEAN : WatcherFlush(i)
  \/ NotifyFlushUpdates
  \/ TimePasses

WatcherSpec ==
  /\ Init
  /\ [][WatcherNext]_vars
  /\ WF_vars(\E i \in BOOLEAN : WatcherFlush(i))
  /\ WF_vars(NotifyFlushUpdates)
  /\ WF_vars(TimePasses)

\* ------------------------------------------------- the initial scan on its own
\* initializeDecorations and cancelInitialization, with the timers of wait and
\* findFiles as the steps that resume a suspended scan.  A scan runs from one
\* await to the next without interruption.

\* An initializeDecorations that does not look at isInitializing.
InitializedStartsAnyway(A, S, force, nFolders) ==
  LET B == IF force THEN Cancelled(A) ELSE A
      s == CHOOSE t \in Scans : S[t].pc = "idle" /\ \A r \in 1..(t - 1) : S[r].pc # "idle"
  IN IF nFolders = 0
     THEN [appState |-> B, scans |-> S, returned |-> None]
     ELSE [appState |-> [initializationRunId |-> B.initializationRunId + 1,
                         isInitializing |-> TRUE,
                         initializationPromise |-> Some(s)],
           scans |-> [S EXCEPT ![s] =
                        [IdleScan EXCEPT !.pc = "delay",
                                         !.runId = B.initializationRunId + 1,
                                         !.folders = nFolders]],
           returned |-> Some(s)]

\* initializeDecorations(state, provider, {force}) with nFolders workspace
\* folders, called in the state A with the scans S: the state and the scans
\* it leaves, and the promise it returns (None: one that is already
\* resolved).  The scan started is the lowest one not yet used.
Initialized(A, S, force, nFolders) ==
  LET B == IF force THEN Cancelled(A) ELSE A
      s == CHOOSE t \in Scans : S[t].pc = "idle" /\ \A r \in 1..(t - 1) : S[r].pc # "idle"
  IN IF ~force /\ A.isInitializing
     THEN [appState |-> A, scans |-> S, returned |-> A.initializationPromise]
     ELSE IF nFolders = 0
     THEN [appState |-> B, scans |-> S, returned |-> None]
     ELSE [appState |-> [initializationRunId |-> B.initializationRunId + 1,
                         isInitializing |-> TRUE,
                         initializationPromise |-> Some(s)],
           scans |-> [S EXCEPT ![s] =
                        [IdleScan EXCEPT !.pc = "delay",
                                         !.runId = B.initializationRunId + 1,
                                         !.folders = nFolders]],
           returned |-> Some(s)]

\* How far the run id goes when initializeDecorations is called in A.
RunIdAfter(A, force) == A.initializationRunId + (IF force THEN 2 ELSE 1)

InitializeDecorations(force, nFolders) ==
  /\ RunIdAfter(appState, force) <= MaxRunId
  /\ \E t \in Scans : scans[t].pc = "idle"
  /\ appState' = Initialized(appState, scans, force, nFolders).appState
  /\ scans' = Initialized(appState, scans, force, nFolders).scans
  /\ UNCHANGED exceptScan

\* cancelInitialization(state).
CancelInitialization ==
  /\ appState.initializationRunId < MaxRunId
  /\ appState' = Cancelled(appState)
  /\ UNCHANGED scans
  /\ UNCHANGED exceptScan

\* The scan s becomes r.scan and the state r.appState.
Resumed(s, r) ==
  /\ appState' = r.appState
  /\ scans' = [scans EXCEPT ![s] = r.scan]
  /\ UNCHANGED exceptScan

\* wait(initialScanDelay) is over.
ScanDelayOver(s) ==
  /\ scans[s].pc = "delay"
  /\ Resumed(s, IF Superseded(appState, scans[s])
                THEN Stopped(appState, scans[s])
                ELSE NextFolder(appState, scans[s]))

\* findFiles resolves; n files of the folder are candidates.
FindFilesResolves(s, n) ==
  /\ scans[s].pc = "find"
  /\ Resumed(s, BatchLoop(appState, [scans[s] EXCEPT !.files = n, !.i = 0]))

\* findFiles rejects: the catch block logs, the finally block runs.
FindFilesRejects(s) ==
  /\ scans[s].pc = "find"
  /\ Resumed(s, [appState |-> IF Superseded(appState, scans[s]) THEN appState
                              ELSE [appState EXCEPT !.isInitializing = FALSE,
                                                    !.initializationPromise = None],
                 scan |-> Returned(scans[s], "failed")])

\* wait(delayMs) after a batch is over: i += batchSize.
BatchDelayOver(s) ==
  /\ scans[s].pc = "batch"
  /\ Resumed(s, BatchLoop(appState, [scans[s] EXCEPT !.i = @ + batchSize]))

ScanNext ==
  \/ \E force \in BOOLEAN, nFolders \in {0, MaxFolders} : InitializeDecorations(force, nFolders)
  \/ CancelInitialization
  \/ \E s \in Scans : ScanDelayOver(s)
  \/ \E s \in Scans, n \in FileCounts : FindFilesResolves(s, n)
  \/ \E s \in Scans : FindFilesRejects(s)
  \/ \E s \in Scans : BatchDelayOver(s)

ScanSpec == Init /\ [][ScanNext]_vars

\* ------------------------------------------------------ an LRUCache on its own
\* new LRUCache(maxSize), then get, set, has, delete and clear in any order.
\* recency is kept by the rule of the documentation: a set and a get that
\* finds the key promote it, nothing else does.

LruConstruct(halves) ==
  /\ ~lru.constructed
  /\ lru' = [constructed |-> TRUE, halves |-> halves, maxSize |-> LRUMaxSize(halves),
             map |-> <<>>]
  /\ recency' = <<>>
  /\ lastOp' = [op |-> "new", key |-> "", value |-> None, evicted |-> {},
                held |-> FALSE]
  /\ UNCHANGED exceptLru

LruGet(k) ==
  /\ lru.constructed
  /\ lru' = [lru EXCEPT !.map = LRUGet(lru.map, k).cache]
  /\ recency' = IF LRUHas(lru.map, k) THEN Promoted(recency, k) ELSE recency
  /\ lastOp' = [op |-> "get", key |-> k, value |-> LRUGet(lru.map, k).value,
                evicted |-> {}, held |-> LRUHas(lru.map, k)]
  /\ UNCHANGED exceptLru

LruSet(k, v) ==
  /\ lru.constructed
  /\ lru' = [lru EXCEPT !.map = LRUSet(lru.map, lru.maxSize, k, v)]
  /\ recency' = Promoted(SelectSeq(recency, LAMBDA x : LRUHas(lru'.map, x)), k)
  /\ lastOp' = [op |-> "set", key |-> k, value |-> Some(v),
                 evicted |-> {e \in LRUContents(lru.map) :
                                e.k # k /\ ~LRUHas(lru'.map, e.k)},
                held |-> LRUHas(lru.map, k)]
  /\ UNCHANGED exceptLru

LruHas(k) ==
  /\ lru.constructed
  /\ lastOp' = [op |-> "has", key |-> k, value |-> Some(LRUHas(lru.map, k)),
                evicted |-> {}, held |-> LRUHas(lru.map, k)]
  /\ UNCHANGED <<lru, recency>>
  /\ UNCHANGED exceptLru

LruDelete(k) ==
  /\ lru.constructed
  /\ lru' = [lru EXCEPT !.map = LRUDelete(lru.map, k)]
  /\ recency' = SelectSeq(recency, LAMBDA x : x # k)
  /\ lastOp' = [op |-> "delete", key |-> k, value |-> Some(LRUHas(lru.map, k)),
                evicted |-> {}, held |-> LRUHas(lru.map, k)]
  /\ UNCHANGED exceptLru

LruClear ==
  /\ lru.constructed
  /\ lru' = [lru EXCEPT !.map = <<>>]
  /\ recency' = <<>>
  /\ lastOp' = [op |-> "clear", key |-> "", value |-> None, evicted |-> {},
                held |-> FALSE]
  /\ UNCHANGED exceptLru

LruNext ==
  \/ \E halves \in LruCapacities : LruConstruct(halves)
  \/ \E k \in LruKeys : LruGet(k)
  \/ \E k \in LruKeys, v \in LruValues : LruSet(k, v)
  \/ \E k \in LruKeys : LruHas(k)
  \/ \E k \in LruKeys : LruDelete(k)
  \/ LruClear

LruSpec == Init /\ [][LruNext]_vars

\* ------------------------------------------------- activation and the command
\* activate, the handler of linesight.refresh and the scans they start, in a
\* workspace that is untrusted until trust is granted.  The workspace has
\* MaxFolders folders.  The caches and the provider's batching, which the
\* handlers also touch, are left out: they do not decide whether a scan
\* starts.

\* activate(context): setupFileWatcher, initializeDecorations(provider),
\* registration of the command and of the listeners.
Activate ==
  /\ ~extension.activated
  /\ extension' = [extension EXCEPT !.activated = TRUE]
  /\ appState' = Initialized(appState, scans, FALSE, MaxFolders).appState
  /\ scans' = Initialized(appState, scans, FALSE, MaxFolders).scans
  /\ UNCHANGED workspace
  /\ UNCHANGED exceptExtension

\* The handler of linesight.refresh: cancelInitialization, clearAllCaches,
\* provider.refresh(), initializeDecorations(provider, {force: true}).
RefreshCommand ==
  /\ extension.activated
  /\ RunIdAfter(Cancelled(appState), TRUE) <= MaxRunId
  /\ \E t \in Scans : scans[t].pc = "idle"
  /\ extension' = [extension EXCEPT !.commands = @ + 1]
  /\ appState' = Initialized(Cancelled(appState), scans, TRUE, MaxFolders).appState
  /\ scans' = Initialized(Cancelled(appState), scans, TRUE, MaxFolders).scans
  /\ UNCHANGED workspace
  /\ UNCHANGED exceptExtension

\* The user trusts the workspace.
GrantTrust ==
  /\ ~workspace.isTrusted
  /\ workspace' = [workspace EXCEPT !.isTrusted = TRUE]
  /\ UNCHANGED extension
  /\ UNCHANGED exceptHost

ExtensionNext ==
  \/ Activate
  \/ RefreshCommand
  \/ GrantTrust
  \/ \E s \in Scans : ScanDelayOver(s)
  \/ \E s \in Scans, n \in FileCounts : FindFilesResolves(s, n)
  \/ \E s \in Scans : FindFilesRejects(s)
  \/ \E s \in Scans : BatchDelayOver(s)

ExtensionSpec == Init /\ [][ExtensionNext]_vars

\* ------------------------------------- one call of countLinesWithReadStream
\* The call, the stream's events and the timeout.  The stream delivers the
\* file in chunks of any length, then ends; it may fail at any moment while
\* it flows, and also after its end; once destroyed it emits nothing.

\* countLinesWithReadStream(filePath, timeoutMs) for a file holding content.
ReadStart(content) ==
  /\ reading.stream = "none"
  /\ reading' = [NotReading EXCEPT !.content = content, !.stream = "flowing",
                                   !.timer = "armed"]
  /\ UNCHANGED exceptRead

\* 'data' with the next n characters.
StreamData(n) ==
  /\ reading.stream = "flowing"
  /\ reading.offset + n <= Len(reading.content)
  /\ reading' = [AfterChunk(reading, SubSeq(reading.content, reading.offset + 1,
                                            reading.offset + n))
                   EXCEPT !.offset = @ + n,
                          !.chunks = IF n > 0 THEN @ + 1 ELSE @]
  /\ UNCHANGED exceptRead

\* 'end', after the whole file was delivered.
StreamEnd ==
  /\ reading.stream = "flowing"
  /\ reading.offset = Len(reading.content)
  /\ reading' =
       IF MaySettle(reading)
       THEN [Settled(reading, Resolved(EndCount(reading)))
               EXCEPT !.stream = "ended", !.timer = "cleared",
                      !.lineCount = EndCount(reading)]
       ELSE [reading EXCEPT !.stream = "ended"]
  /\ UNCHANGED exceptRead

\* 'error'.
StreamError ==
  /\ reading.stream \in {"flowing", "ended"}
  /\ reading' =
       IF MaySettle(reading)
       THEN [Settled(reading, Rejected("error"))
               EXCEPT !.stream = "errored", !.timer = "cleared"]
       ELSE [reading EXCEPT !.stream = "errored"]
  /\ UNCHANGED exceptRead

\* The timer of timeoutMs fires.
ReadTimeout ==
  /\ reading.timer = "armed"
  /\ reading' =
       IF MaySettle(reading)
       THEN [Settled(reading, Rejected("timeout"))
               EXCEPT !.stream = "destroyed", !.timer = "fired"]
       ELSE [reading EXCEPT !.timer = "fired"]
  /\ UNCHANGED exceptRead

ReadNext ==
  \/ \E content \in Contents : ReadStart(content)
  \/ \E n \in 0..MaxChars : StreamData(n)
  \/ StreamEnd
  \/ StreamError
  \/ ReadTimeout

ReadSpec == Init /\ [][ReadNext]_vars

\* setTimeout fires its callback unless clearTimeout was called.
ReadFairSpec == ReadSpec /\ WF_vars(ReadTimeout)

\* --------------------------------------------- the tracked timers on their own
\* scheduleTimeout(callback, delayMs): a new armed timer, added to the Set.
ScheduleTimeout ==
  /\ Len(timeouts) < MaxTimers
  /\ timeouts' = Append(timeouts, "armed")
  /\ callbacks' = Append(callbacks, 0)
  /\ activeTimers' = activeTimers \cup {Len(timeouts) + 1}
  /\ UNCHANGED exceptTimer

\* The host runs the function scheduleTimeout gave to setTimeout: it leaves
\* the Set and calls the callback.
TimeoutFires(timer) ==
  /\ timeouts[timer] = "armed"
  /\ timeouts' = [timeouts EXCEPT ![timer] = "fired"]
  /\ activeTimers' = activeTimers \ {timer}
  /\ callbacks' = [callbacks EXCEPT ![timer] = @ + 1]
  /\ UNCHANGED exceptTimer

\* clearTrackedTimer(timer), for any timer scheduleTimeout returned, fired
\* or cleared ones included.
ClearTrackedTimer(timer) ==
  /\ timeouts' = ClearTimeout(timeouts, timer)
  /\ activeTimers' = ClearTracked(activeTimers, timer)
  /\ UNCHANGED callbacks
  /\ UNCHANGED exceptTimer

\* clearAllTrackedTimers().
RECURSIVE ClearEach(_, _)
ClearEach(ts, active) ==
  IF active = {} THEN ts
  ELSE LET timer == CHOOSE t \in active : TRUE
       IN  ClearEach(ClearTimeout(ts, timer), active \ {timer})

ClearAllTrackedTimers ==
  /\ timeouts' = ClearEach(timeouts, activeTimers)
  /\ activeTimers' = {}
  /\ UNCHANGED callbacks
  /\ UNCHANGED exceptTimer

TimerNext ==
  \/ ScheduleTimeout
  \/ \E timer \in DOMAIN timeouts : TimeoutFires(timer)
  \/ \E timer \in DOMAIN timeouts : ClearTrackedTimer(timer)
  \/ ClearAllTrackedTimers

TimerSpec == Init /\ [][TimerNext]_vars

\* ------------------------------------------------ formatLineCount on its own
FormatLineCount(count) ==
  /\ badge' = Some([count |-> count, text |-> formatLineCount(count)])
  /\ UNCHANGED exceptFormat

FormatNext == \E count \in FormatCounts : FormatLineCount(count)

FormatSpec == Init /\ [][FormatNext]_vars

\* ------------------------------------------------------------- properties
\* C1 (staleness discard): a call whose key's metadata entry was removed or
\* replaced between its computation request and the settlement of the count
\* returns undefined (and so writes no count). The source does not keep this:
\* countLines commits the unit's stat again when the limiter starts the unit,
\* which restores an entry that refresh removed while the unit was queued.
C1_StalenessDiscard ==
  \A x \in returned : x.disturbed => x.ret = None

\* A disturbed call that the guard did catch.
C1_DiscardedStale ==
  \E x \in returned : x.disturbed /\ x.via = "stale"

\* C2 (cache coherence): a decoration returned to a call that observed
\* fingerprint F shows the count of the file as it was at F (0 for an empty
\* file, the estimate above sizeLimit), counts written by updateFromBuffer
\* excepted. The source does not keep this: a call joins a count in flight
\* that read other content, and the fast path pairs a newly committed
\* fingerprint with the count of the previous one.
C2_CacheCoherence ==
  \A x \in returned :
    (x.ret # None /\ ~x.buf) =>
      x.ret[1].lineCount =
        (IF x.stat.size > sizeLimit THEN EstimatedLineCount(x.stat.size)
         ELSE ContentLines(x.stat))

C2_CoherentCount ==
  \E x \in returned :
    /\ x.via = "counted"
    /\ x.ret[1].lineCount = ContentLines(x.stat)
    /\ x.stat.mtimeMs > 0

\* C3 (at most one recomputation per key): no two units that were handed to
\* the limiter and have not settled count the same key. The source does not
\* keep this: refresh removes the registry entry of a unit that is still in
\* flight, and the settlement of that unit then removes, by key, the entry of
\* the unit that replaced it.
C3_OneComputationPerKey ==
  \A t1, t2 \in Resolves :
    (/\ tasks[t1].state # "free"
     /\ tasks[t2].state # "free"
     /\ tasks[t1].key = tasks[t2].key) => t1 = t2

\* C4 (dedup): calls for one key that are awaiting a count at the same time
\* await the same unit, and calls for one key that return together return
\* the same thing. The source does not keep this: see C3 for the second
\* unit; and of two callers of one unit the one whose stat is no longer the
\* committed fingerprint gets undefined while the other gets the decoration.
C4_Dedup ==
  /\ \A r1, r2 \in Resolves :
       (/\ calls[r1].pc = "await"
        /\ calls[r2].pc = "await"
        /\ calls[r1].key = calls[r2].key) => calls[r1].awaits = calls[r2].awaits
  /\ \A x, y \in returned : x.key = y.key => x.ret = y.ret

\* C5 (failure leaves no cached state): a call whose count failed (stream
\* error or timeout, or the limiter's queue being full) returns undefined and
\* none of the three caches holds its key afterwards. The source does not
\* keep this: on queue-full only the decoration is dropped, after the new
\* fingerprint was committed.
C5_FailureLeavesNothing ==
  \A x \in returned :
    x.via \in {"queuefull", "readerror"} =>
      /\ x.ret = None
      /\ ~LRUHas(fileMetadataCache, x.key)
      /\ ~LRUHas(lineCountCache, x.key)
      /\ ~LRUHas(fileDecorations, x.key)

\* C6 (not found): a call whose stat failed or showed no regular file returns
\* undefined and none of the three caches holds its key afterwards. The
\* source returns undefined and removes nothing.
C6_NotFoundPurges ==
  \A x \in returned :
    x.via = "notfound" =>
      /\ x.ret = None
      /\ ~LRUHas(fileMetadataCache, x.key)
      /\ ~LRUHas(lineCountCache, x.key)
      /\ ~LRUHas(fileDecorations, x.key)

\* C7 (fast path): a call that completes its stat while the metadata cache
\* holds the observed fingerprint and the count cache holds a count for the key
\* returns the decoration of that count; the limiter and the registry are left
\* as they were, and so is what the metadata and count caches map keys to.
C7_FastPath ==
  [][\A r \in Resolves :
       (/\ calls[r].pc = "stat"
        /\ calls'[r].pc # "stat"
        /\ calls[r].stat.isFile
        /\ LRUPeek(fileMetadataCache, calls[r].key) = Some(Fingerprint(calls[r].stat))
        /\ LRUHas(lineCountCache, calls[r].key))
       =>
       /\ \E x \in returned' :
            /\ returned' = {x}
            /\ x.key = calls[r].key
            /\ x.ret # None
            /\ x.ret[1].lineCount = LRUPeek(lineCountCache, calls[r].key)[1].n
            /\ LRUPeek(fileDecorations', calls[r].key) = x.ret
       /\ running' = running
       /\ queue' = queue
       /\ tasks' = tasks
       /\ processingQueue' = processingQueue
       /\ LRUContents(fileMetadataCache') = LRUContents(fileMetadataCache)
       /\ LRUContents(lineCountCache') = LRUContents(lineCountCache)]_vars

\* A call returned on the fast path while another count was in flight.
C7_FastPathTaken ==
  \E x \in returned :
    /\ x.via = "hit"
    /\ LRUHas(fileMetadataCache, x.key)
    /\ \E t \in Resolves : tasks[t].state # "free"

\* C8 (invalidate): after refresh(keys) the three caches and the registry
\* hold nothing for those keys and the keys, or the full-refresh signal, are
\* pending; after refresh() they hold nothing at all and the full-refresh
\* signal is pending. The source does not keep this: refresh() without an
\* argument sets the signal and removes nothing.
C8_Invalidate ==
  [][/\ \A ks \in SUBSET Keys \ {{}} :
          Refresh(ks) =>
            /\ \A k \in ks :
                 /\ ~LRUHas(fileMetadataCache', k)
                 /\ ~LRUHas(lineCountCache', k)
                 /\ ~LRUHas(fileDecorations', k)
                 /\ processingQueue'[k] = 0
            /\ (fullRefreshPending' \/ ks \subseteq pendingUpdates')
            /\ refreshTimer'.live
     /\ RefreshAll =>
          /\ fileMetadataCache' = <<>>
          /\ lineCountCache' = <<>>
          /\ fileDecorations' = <<>>
          /\ \A k \in Keys : processingQueue'[k] = 0
          /\ fullRefreshPending'
          /\ refreshTimer'.live]_vars

\* C9 (updateFromBuffer): updateFromBuffer(key, n) with n > 0 writes n to the
\* count cache and its decoration to the decoration cache, adds the key to the
\* pending set with the timer armed, and leaves the metadata cache and the
\* registry as they were.
C9_UpdateFromBuffer ==
  [][\A k \in Keys, n \in BufferCounts :
       (n > 0 /\ UpdateFromBuffer(k, n)) =>
         /\ LRUPeek(lineCountCache', k) = Some([n |-> n, buf |-> TRUE])
         /\ LRUPeek(fileDecorations', k) = Some([lineCount |-> n, estimated |-> FALSE])
         /\ k \in pendingUpdates'
         /\ refreshTimer'.live
         /\ fileMetadataCache' = fileMetadataCache
         /\ processingQueue' = processingQueue]_vars

\* A buffer count was written for a key whose metadata is cached and while a
\* count of that key is registered.
C9_BufferWritten ==
  \E k \in Keys :
    /\ LRUPeek(lineCountCache, k) = Some([n |-> 7, buf |-> TRUE])
    /\ k \in pendingUpdates
    /\ refreshTimer.live
    /\ LRUHas(fileMetadataCache, k)
    /\ processingQueue[k] # 0

\* C10 (degenerate sizes): a call that completes its stat on a cache miss for
\* a file of size 0 or of size above sizeLimit hands nothing to the limiter and
\* registers nothing; the count cached and shown is 0 for size 0 and
\* floor(size / estimationFactor), marked estimated, above sizeLimit.
C10_DegenerateSizes ==
  [][\A r \in Resolves :
       (/\ IsMiss(r)
        /\ calls'[r].pc # "stat"
        /\ (calls[r].stat.size = 0 \/ calls[r].stat.size > sizeLimit))
       =>
       LET size == calls[r].stat.size
           expected == [lineCount |-> IF size = 0 THEN 0 ELSE size \div 50,
                        estimated |-> size > 5000000]
       IN
       /\ running' = running
       /\ queue' = queue
       /\ tasks' = tasks
       /\ processingQueue' = processingQueue
       /\ calls'[r].pc = "idle"
       /\ LRUPeek(lineCountCache', calls[r].key) # None
       /\ LRUPeek(lineCountCache', calls[r].key)[1].n = expected.lineCount
       /\ LRUPeek(fileDecorations', calls[r].key) = Some(expected)
       /\ \E x \in returned' : returned' = {x} /\ x.ret = Some(expected)]_vars

\* An estimate was returned while the count cache holds the 0 of an empty file.
C10_EstimatedAndZero ==
  \E x \in returned :
    /\ x.via = "estimate"
    /\ x.ret = Some([lineCount |-> 100000, estimated |-> TRUE])
    /\ \E k \in Keys : LRUPeek(lineCountCache, k) = Some([n |-> 0, buf |-> FALSE])

\* C11 (limiter bound): the running count of a limiter constructed with
\* maxConcurrent = k is between 0 and k, and it is the number of units that
\* were started and have not settled, whatever the units do (resolve, reject,
\* throw synchronously).
C11_LimiterBound ==
  /\ limiter.running >= 0
  /\ limiter.running <= limiter.maxConcurrent
  /\ limiter.running = Cardinality({u \in Units : units[u].state = "running"})

\* Both slots of a limiter of 2 are taken and a unit waits, after one unit
\* threw synchronously.
C11_LimitReached ==
  /\ limiter.maxConcurrent = 2
  /\ limiter.running = 2
  /\ Len(limiter.queue) > 0
  /\ \E u \in Units : units[u].kind = "throws" /\ units[u].handle = "rejected"

\* C12 (limiter FIFO): the units that had to wait are started in the order in
\* which run() pushed them; a completion with units waiting starts the head of
\* the queue, and goes on to the next one only when the one it started threw
\* synchronously (which is that unit's own completion).
C12_LimiterFifo ==
  [][LET waited == {enqueued'[i] : i \in 1..Len(enqueued')}
         ws == SelectSeq(started', LAMBDA u : u \in waited)
         taken == Len(limiter.queue) - Len(limiter'.queue)
     IN
     /\ Len(ws) <= Len(enqueued')
     /\ ws = SubSeq(enqueued', 1, Len(ws))
     /\ limiter'.queue = SubSeq(enqueued', Len(ws) + 1, Len(enqueued'))
     /\ \A u \in Units :
          (units[u].state = "running" /\ units'[u].state = "done") =>
            IF limiter.queue = <<>>
            THEN started' = started
            ELSE /\ taken >= 1
                 /\ started' = started \o SubSeq(limiter.queue, 1, taken)
                 /\ limiter'.queue = SubSeq(limiter.queue, taken + 1, Len(limiter.queue))
                 /\ \A i \in 1..(taken - 1) : units'[limiter.queue[i]].kind = "throws"
                 /\ \/ units'[limiter.queue[taken]].state = "running"
                    \/ limiter'.queue = <<>>]_vars

\* Two units waited and were started, the first of them throwing.
C12_TwoWaitedStarted ==
  /\ Len(enqueued) >= 2
  /\ units[enqueued[1]].kind = "throws"
  /\ units[enqueued[1]].state = "done"
  /\ units[enqueued[2]].state \in {"running", "done"}
  /\ units[enqueued[2]].handle # "queuefull"

\* C13 (queue full): run() called while running = maxConcurrent and the queue
\* holds maxQueued entries rejects the handle with queue-full, never calls
\* fn(), and leaves the running count and the queue as they were.
C13_QueueFull ==
  [][\A u \in Units :
       (/\ units[u].state = "new"
        /\ units'[u].state # "new"
        /\ limiter.running = limiter.maxConcurrent
        /\ Len(limiter.queue) = limiter.maxQueued)
       =>
       /\ units'[u].handle = "queuefull"
       /\ units'[u].state = "done"
       /\ started' = started
       /\ enqueued' = enqueued
       /\ limiter' = limiter]_vars

\* A unit was rejected by a full limiter and never started, later ones ran.
C13_Rejected ==
  \E u \in Units :
    /\ units[u].handle = "queuefull"
    /\ \A i \in 1..Len(started) : started[i] # u
    /\ \E i \in 1..Len(started) : started[i] > u

\* C14 (synchronous throw): a unit that throws when the limiter calls it has
\* its handle rejected and holds no slot afterwards: the running count is the
\* number of started, unsettled units, and no unit waits while a slot is free,
\* as after an asynchronous failure. With maxConcurrent = 1 a unit handed to
\* run() after the throw is started at once when nothing else runs.
C14_SyncThrow ==
  [][(\E u \in Units :
        /\ units'[u].kind = "throws"
        /\ \E i \in (Len(started) + 1)..Len(started') : started'[i] = u)
     =>
     /\ \A u \in Units :
          (/\ units'[u].kind = "throws"
           /\ \E i \in (Len(started) + 1)..Len(started') : started'[i] = u)
          => units'[u].handle = "rejected" /\ units'[u].state = "done"
     /\ limiter'.running = Cardinality({v \in Units : units'[v].state = "running"})
     /\ limiter'.queue # <<>> => limiter'.running = limiter'.maxConcurrent
     /\ (\A v \in Units : units'[v].state # "running") =>
          LimiterRunOutcome(limiter') = "start"]_vars

\* With maxConcurrent = 1: a unit threw synchronously, and a unit handed in
\* after it resolved.
C14_NormalAfterThrow ==
  /\ limiter.maxConcurrent = 1
  /\ \E i, j \in 1..Len(started) :
       /\ i < j
       /\ units[started[i]].kind = "throws"
       /\ units[started[i]].handle = "rejected"
       /\ started[i] < started[j]
       /\ units[started[j]].kind = "resolves"
       /\ units[started[j]].handle = "resolved"

\* C15 (limiter drains): when every started unit settles, every unit run()
\* accepted is started and its handle settles with the outcome of the unit;
\* once no accepted unit is unsettled, activeCount and pendingCount are 0.
C15_LimiterDrains ==
  /\ \A u \in Units :
       (units[u].state \in {"queued", "running"})
         ~> (/\ units[u].state = "done"
             /\ \E i \in 1..Len(started) : started[i] = u
             /\ units[u].handle =
                  (IF units[u].kind = "resolves" THEN "resolved" ELSE "rejected"))
  /\ []((\A u \in Units : units[u].state \in {"new", "done"})
          => (limiter.running = 0 /\ limiter.queue = <<>>))

\* All units were handed in, some waited, and all have settled.
C15_Drained ==
  /\ \A u \in Units : units[u].state = "done"
  /\ Len(enqueued) >= 2
  /\ \E u \in Units : units[u].handle = "rejected" /\ units[u].kind = "rejects"
  /\ limiter.running = 0
  /\ limiter.queue = <<>>


\* C16  Debounce coalescing.  Events are fired by flushes only, and the flush
\* that closes a window in which refresh(uris) and updateFromBuffer were
\* called for no more than PENDING_UPDATES_CAP distinct keys, and refresh()
\* was not, fires one event whose key list is the union of the keys of all
\* those calls, however many calls there were, and leaves nothing pending.
C16_DebounceCoalescing ==
  [][ /\ (emitted' # None) =>
           (batcher.refreshTimer.live /\ ~batcher'.refreshTimer.live)
      /\ ( /\ batcher.refreshTimer.live /\ ~batcher'.refreshTimer.live
           /\ ~since.full
           /\ Cardinality(since.keys) <= PENDING_UPDATES_CAP )
         => /\ emitted' = Some([full |-> FALSE, keys |-> since.keys])
            /\ batcher'.pendingUpdates = {}
            /\ ~batcher'.fullRefreshPending ]_vars

\* Two calls for two keys in one window were answered by one event.
C16_TwoCallsOneEvent ==
  /\ since.flushed
  /\ since.calls = 2
  /\ Cardinality(since.keys) = 2
  /\ ~since.full
  /\ emitted = Some([full |-> FALSE, keys |-> since.keys])

\* C17  Cap collapse.  More than PENDING_UPDATES_CAP distinct keys are never
\* pending for enumeration: when the pending keys exceed the cap the
\* full-refresh flag is set, the flush that finds the flag set fires the
\* full-refresh event, and no flush fires a key list longer than the cap.
C17_CapCollapse ==
  [][ /\ (Cardinality(batcher'.pendingUpdates) > PENDING_UPDATES_CAP)
           => batcher'.fullRefreshPending
      /\ ( /\ batcher.refreshTimer.live /\ ~batcher'.refreshTimer.live
           /\ batcher.fullRefreshPending )
         => emitted' = Some([full |-> TRUE, keys |-> {}])
      /\ (emitted' # None /\ ~emitted'[1].full)
           => Cardinality(emitted'[1].keys) <= PENDING_UPDATES_CAP ]_vars

\* A refresh(uris) overflowed the cap and the flush fired the full-refresh
\* event.
C17_Collapsed ==
  /\ since.flushed
  /\ since.overflow
  /\ ~since.full
  /\ emitted = Some([full |-> TRUE, keys |-> {}])

\* C18  No key dropped by a flush.  The flush of the batcher fires the
\* full-refresh event or an event listing every key added since its last
\* flush, and leaves no key pending.  When the watcher queue hands on (its
\* timer fires, or it overflows), it hands refresh() or every key queued
\* since it last handed on to the provider, keeps none, and the keys handed
\* on are pending in the batcher or its full-refresh flag is set.
C18_NoKeyDropped ==
  [][ /\ (batcher.refreshTimer.live /\ ~batcher'.refreshTimer.live)
           => /\ emitted' # None
              /\ (emitted'[1].full \/ since.keys \subseteq emitted'[1].keys)
              /\ batcher'.pendingUpdates = {}
      /\ (funnel.watcherQueueTimer /\ ~funnel'.watcherQueueTimer)
           => /\ forwarded' # None
              /\ (forwarded'[1].full \/ since.queued \subseteq forwarded'[1].keys)
              /\ funnel'.pendingWatcherUpdates = {}
              /\ \/ batcher'.fullRefreshPending
                 \/ since.queued \subseteq batcher'.pendingUpdates
              /\ batcher'.refreshTimer.live ]_vars

\* The watcher queue's flush handed two queued keys to the provider, where
\* they are pending.
C18_TwoKeysForwarded ==
  /\ forwarded # None
  /\ ~forwarded[1].full
  /\ Cardinality(forwarded[1].keys) = 2
  /\ forwarded[1].keys \subseteq batcher.pendingUpdates
  /\ funnel.pendingWatcherUpdates = {}

\* C19  One event per flush.  Every flush of the batcher fires one event:
\* the full-refresh event if refresh() was called since the previous flush,
\* whatever keys were added before or after it; the list of the pending keys,
\* which is not empty, if neither refresh() was called nor the cap was
\* overflowed; a full-refresh event carries no keys; afterwards neither keys
\* nor the flag are pending and the timer is spent.
C19_OneEventPerFlush ==
  [][ (batcher.refreshTimer.live /\ ~batcher'.refreshTimer.live)
        => /\ emitted' # None
           /\ since.full => emitted' = Some([full |-> TRUE, keys |-> {}])
           /\ (~since.full /\ ~since.overflow)
                => /\ batcher.pendingUpdates # {}
                   /\ emitted' = Some([full |-> FALSE, keys |-> batcher.pendingUpdates])
           /\ emitted'[1].full => emitted'[1].keys = {}
           /\ emitted'[1].full = batcher.fullRefreshPending
           /\ batcher'.pendingUpdates = {}
           /\ ~batcher'.fullRefreshPending ]_vars

\* A flush fired the full-refresh event alone although keys had been added
\* in the same window, and cleared both.
C19_FullShortCircuits ==
  /\ since.flushed
  /\ since.full
  /\ since.keys # {}
  /\ emitted = Some([full |-> TRUE, keys |-> {}])
  /\ batcher.pendingUpdates = {}
  /\ ~batcher.fullRefreshPending

\* C20  Representation invariant of the batcher: while the full-refresh flag
\* is set no key is pending.
C20_FlagExcludesKeys ==
  batcher.fullRefreshPending => batcher.pendingUpdates = {}

\* A refresh(uris) overflowed the cap: the flag is set and no key is pending.
C20_FlagAloneAfterOverflow ==
  /\ batcher.fullRefreshPending
  /\ batcher.pendingUpdates = {}
  /\ since.overflow
  /\ ~since.flushed

\* C21  Minimum-delay debounce.  While its timer runs, a call that adds to
\* the batcher (its delay is debounceDelay like the running timer's, never
\* shorter) leaves the timer untouched; a queueUpdate restarts the watcher
\* queue's timer only with a shorter delay and leaves it untouched otherwise,
\* so its delay is the minimum of the delays requested since it was armed.
C21_MinimumDelay ==
  [][ /\ ( /\ batcher.refreshTimer.live
           /\ batcher'.refreshTimer.live
           /\ (ops' # ops \/ forwarded' # None) )
         => batcher'.refreshTimer = batcher.refreshTimer
      /\ ( /\ funnel.watcherQueueTimer
           /\ funnel'.watcherQueueTimer
           /\ ops' # ops )
         => IF funnel'.watcherQueueDelayMs < funnel.watcherQueueDelayMs
            THEN ~funnel'.elapsed
            ELSE /\ funnel'.watcherQueueDelayMs = funnel.watcherQueueDelayMs
                 /\ funnel'.elapsed = funnel.elapsed
      /\ funnel'.watcherQueueTimer
           => \A d \in since'.delays : funnel'.watcherQueueDelayMs <= d
      /\ funnel'.watcherQueueTimer
           => funnel'.watcherQueueDelayMs \in since'.delays ]_vars

\* The watcher queue's timer, armed a while ago with the shorter of two
\* requested delays, was left running by the later request.
C21_FunnelKeepsShorter ==
  /\ funnel.watcherQueueTimer
  /\ funnel.elapsed
  /\ since.delays = {50, debounceDelay}
  /\ funnel.watcherQueueDelayMs = 50
  /\ Cardinality(funnel.pendingWatcherUpdates) = 2

\* C22  Bounded pending sets: the provider's pendingUpdates never holds more
\* than PENDING_UPDATES_CAP keys and the watcher's pendingWatcherUpdates
\* never more than WATCHER_QUEUE_CAP.
C22_BoundedPending ==
  /\ Cardinality(batcher.pendingUpdates) <= PENDING_UPDATES_CAP
  /\ Cardinality(funnel.pendingWatcherUpdates) <= WATCHER_QUEUE_CAP

\* Both sets are filled up to their caps.
C22_BothAtCap ==
  /\ Cardinality(batcher.pendingUpdates) = PENDING_UPDATES_CAP
  /\ Cardinality(funnel.pendingWatcherUpdates) = WATCHER_QUEUE_CAP

\* C23  Superseded scan stops.  A suspended scan whose captured runId differs
\* from initializationRunId submits nothing more to provider.refresh, neither
\* a batch nor the final refresh(): when it resumes it returns, and it leaves
\* initializationRunId, isInitializing and initializationPromise as they are.
\* What any scan has submitted stays submitted.
C23_SupersededScanStops ==
  [][ \A s \in Scans :
        /\ ( /\ scans[s].pc \in {"delay", "find", "batch"}
             /\ Superseded(appState, scans[s]) )
           => /\ scans'[s].submitted = scans[s].submitted
              /\ scans'[s] # scans[s]
                   => /\ scans'[s].pc = "done"
                      /\ scans'[s].outcome \in {"superseded", "failed"}
                      /\ appState' = appState
        /\ Len(scans'[s].submitted) >= Len(scans[s].submitted)
        /\ SubSeq(scans'[s].submitted, 1, Len(scans[s].submitted)) = scans[s].submitted
    ]_vars

\* A scan that had submitted a batch was superseded by a forced restart and
\* returned without the final refresh(), while the scan that replaced it is
\* under way.
C23_StoppedAfterABatch ==
  \E s, t \in Scans :
    /\ scans[s].outcome = "superseded"
    /\ Len(scans[s].submitted) >= 1
    /\ \A j \in 1..Len(scans[s].submitted) : ~scans[s].submitted[j].full
    /\ scans[t].pc \in {"delay", "find", "batch"}
    /\ ~Superseded(appState, scans[t])

\* C24  Scan completion.  A scan that is current when it resumes returns only
\* at the end of its last folder (or when findFiles rejects); unless findFiles
\* rejected, its return adds refresh() as the last of its calls of
\* provider.refresh, the only refresh() among them, and leaves isInitializing
\* false and initializationPromise undefined, with the run id unchanged.
C24_ScanCompletion ==
  [][ \A s \in Scans :
        ( /\ scans[s].pc \in {"delay", "find", "batch"}
          /\ ~Superseded(appState, scans[s])
          /\ scans'[s].pc = "done"
          /\ scans'[s].outcome # "failed" )
        => /\ scans[s].folder = scans[s].folders
           /\ scans[s].pc = "batch" => scans[s].i + batchSize >= scans[s].files
           /\ scans'[s].submitted = Append(scans[s].submitted, FullRequest)
           /\ \A j \in 1..Len(scans[s].submitted) : ~scans[s].submitted[j].full
           /\ ~appState'.isInitializing
           /\ appState'.initializationPromise = None
           /\ appState'.initializationRunId = appState.initializationRunId
    ]_vars

\* A scan submitted batches of every folder and finished with refresh();
\* nothing is initializing any more.
C24_ScanCompleted ==
  \E s \in Scans :
    /\ scans[s].outcome = "completed"
    /\ Len(scans[s].submitted) > MaxFolders
    /\ scans[s].submitted[Len(scans[s].submitted)].full
    /\ scans[s].runId = appState.initializationRunId
    /\ ~appState.isInitializing
    /\ appState.initializationPromise = None

\* C25  LRU eviction order.  set(k, v) of a key that is not held, at size =
\* capacity, removes the one entry whose latest promotion (by a set or by a
\* get that found it) is the oldest, keeps every other entry with its value
\* and adds k; below capacity it removes nothing.  has(), a get that misses
\* and a delete of another key change no recency.
C25_LruEvictionOrder ==
  [][ /\ ( /\ lastOp'.op = "set"
           /\ ~LRUHas(lru.map, lastOp'.key) )
         => LET new == [k |-> lastOp'.key, v |-> lastOp'.value[1]]
            IN IF Len(lru.map) = lru.maxSize
               THEN /\ LRUContents(lru'.map) =
                         ({e \in LRUContents(lru.map) : e.k # Head(recency)}
                            \cup {new})
                    /\ LRUHas(lru.map, Head(recency))
                    /\ Len(lru'.map) = lru.maxSize
               ELSE LRUContents(lru'.map) = LRUContents(lru.map) \cup {new}
      /\ ( \/ lastOp'.op = "has"
           \/ (lastOp'.op = "get" /\ lastOp'.value = None) )
         => lru'.map = lru.map
      /\ {recency'[i] : i \in 1..Len(recency')} =
           {lru'.map[i].k : i \in 1..Len(lru'.map)}
      /\ Len(recency') = Len(lru'.map) ]_vars

\* Capacity 3: after set a, b, c, get(a) and set d the cache holds c, a, d
\* and b was evicted.
C25_GetChangedTheVictim ==
  /\ lru.maxSize = 3
  /\ LRUKeyOrder(lru.map) = <<"c", "a", "d">>
  /\ lastOp.op = "set"
  /\ lastOp.key = "d"
  /\ \E v \in LruValues : lastOp.evicted = {[k |-> "b", v |-> v]}

\* C26  LRU size bound.  A cache constructed with capacity c never holds
\* more than max(1, floor(c)) entries, no key twice; with c below 1 it holds
\* at most one entry.
C26_LruSizeBound ==
  /\ Len(lru.map) <= (IF lru.halves \div 2 > 1 THEN lru.halves \div 2 ELSE 1)
  /\ lru.halves < 2 => Len(lru.map) <= 1
  /\ \A i, j \in 1..Len(lru.map) : lru.map[i].k = lru.map[j].k => i = j

\* A cache constructed with capacity 0 holds one entry after a second key
\* was set and the first evicted.
C26_CapacityZeroHoldsOne ==
  /\ lru.constructed
  /\ lru.halves = 0
  /\ Len(lru.map) = 1
  /\ lastOp.op = "set"
  /\ lastOp.evicted # {}

\* C27  LRU overwrite.  set(k, v) of a key that is held, at any size, evicts
\* nothing and leaves the size as it is; afterwards k is the last entry, with
\* the value v, and the other entries are the same in the same order.
C27_LruOverwrite ==
  [][ ( /\ lastOp'.op = "set"
        /\ LRUHas(lru.map, lastOp'.key) )
      => /\ Len(lru'.map) = Len(lru.map)
         /\ lastOp'.evicted = {}
         /\ lru'.map[Len(lru'.map)] = [k |-> lastOp'.key, v |-> lastOp'.value[1]]
         /\ SubSeq(lru'.map, 1, Len(lru'.map) - 1) =
              SelectSeq(lru.map, LAMBDA e : e.k # lastOp'.key)
         /\ recency'[Len(recency')] = lastOp'.key ]_vars

\* A full cache of capacity 3 had the value of its oldest key overwritten:
\* the key is now the newest and nothing was evicted.
C27_OverwrittenAtCapacity ==
  /\ lru.maxSize = 3
  /\ LRUKeyOrder(lru.map) = <<"b", "c", "a">>
  /\ lastOp.op = "set"
  /\ lastOp.key = "a"
  /\ lastOp.held
  /\ lastOp.evicted = {}

\* C28  Workspace trust gating.  While the workspace is untrusted no scan has
\* been started, by activate or by linesight.refresh, so findFiles is not
\* called; in a trusted workspace the command starts a scan.
C28_TrustGating ==
  [][ /\ ~workspace'.isTrusted => \A s \in Scans : scans'[s].pc = "idle"
      /\ (workspace.isTrusted /\ extension'.commands # extension.commands)
           => \E s \in Scans : scans[s].pc = "idle" /\ scans'[s].pc = "delay" ]_vars

\* In a trusted workspace the command ran and its scan has called findFiles.
C28_TrustedRefreshScans ==
  /\ workspace.isTrusted
  /\ extension.commands = 1
  /\ \E s \in Scans : scans[s].pc = "find" /\ ~Superseded(appState, scans[s])

\* C29  Line counting.  Whatever the division of the file into chunks, the
\* handle of countLinesWithReadStream resolves to the number of "\n"
\* characters of the file, plus 1 if the file is non-empty and its last
\* character is not "\n"; the end of the stream resolves it when nothing
\* settled it before.
C29_LineCounting ==
  LET content == reading.content
      newlines == Cardinality({i \in 1..Len(content) : content[i] = "\n"})
      expected == IF Len(content) > 0 /\ content[Len(content)] # "\n"
                  THEN newlines + 1 ELSE newlines
  IN  /\ (reading.handle # None /\ reading.handle[1].ok)
           => reading.handle[1].value = Some(expected)
      /\ (reading.stream = "ended" /\ reading.timer = "cleared")
           => reading.handle = Some(Resolved(expected))

\* The file "x\nx" arrived one character per chunk and the handle resolved
\* to 2.
C29_UnterminatedLastLineInChunks ==
  /\ reading.content = <<"x", "\n", "x">>
  /\ reading.chunks = 3
  /\ reading.handle = Some(Resolved(2))

\* C30  Read timeout.  The handle settles exactly once, by the first of end,
\* error and timeout: resolve or reject is called at most once, a settled
\* handle never changes, a timeout that comes first destroys the stream and
\* rejects with a timeout, and a started call does not stay pending forever.
C30_ReadTimeout ==
  /\ [](/\ reading.settlements <= 1
        /\ (reading.handle # None) = (reading.settlements = 1)
        /\ (reading.handle # None) = reading.settled
        /\ (reading.timer = "fired")
             = (reading.handle = Some(Rejected("timeout")))
        /\ reading.timer = "fired" => reading.stream = "destroyed"
        /\ (reading.stream # "none" /\ reading.handle = None)
             => reading.timer = "armed")
  /\ [][ /\ reading.handle # None => reading'.handle = reading.handle
         /\ (reading.handle = None /\ reading'.handle # None) =>
              \/ /\ reading'.stream = "ended"
                 /\ reading'.handle[1].ok
              \/ /\ reading'.stream = "errored"
                 /\ reading'.handle[1] = Rejected("error")
              \/ /\ reading'.timer = "fired"
                 /\ reading'.handle[1] = Rejected("timeout") ]_vars
  /\ (reading.stream # "none") ~> (reading.handle # None)

\* The timer fired in the middle of a file: the stream is destroyed with part
\* of the file undelivered and the handle is rejected with the timeout.
C30_TimedOutMidFile ==
  /\ reading.timer = "fired"
  /\ reading.stream = "destroyed"
  /\ 0 < reading.offset
  /\ reading.offset < Len(reading.content)
  /\ reading.handle = Some(Rejected("timeout"))
  /\ reading.settlements = 1

\* C31  Tracked timers.  activeTimers holds exactly the timers that were
\* scheduled and have neither fired nor been cancelled, and the callback of a
\* cancelled timer never runs: a callback runs once, when its timer fires,
\* and a fired or cancelled timer stays so.
C31_TrackedTimers ==
  /\ [](/\ activeTimers = {t \in DOMAIN timeouts : timeouts[t] = "armed"}
        /\ \A t \in DOMAIN timeouts :
             /\ timeouts[t] = "cleared" => callbacks[t] = 0
             /\ timeouts[t] = "fired" => callbacks[t] = 1
             /\ timeouts[t] = "armed" => callbacks[t] = 0)
  /\ [][\A t \in DOMAIN timeouts :
          timeouts[t] # "armed" => timeouts'[t] = timeouts[t]]_vars

\* One timer was cancelled, one fired and one is still waiting: only the
\* last is in activeTimers and only the fired one ran its callback.
C31_OneCancelledOneFiredOneArmed ==
  /\ Len(timeouts) = 3
  /\ timeouts = <<"cleared", "fired", "armed">>
  /\ activeTimers = {3}
  /\ callbacks = <<0, 1, 0>>

\* C32  Badge format.  formatLineCount(n) is the plain decimal n below 1000,
\* floor(n / 1000) followed by K from 1000 up to 999,999, and
\* floor(n / 1,000,000) followed by M from 1,000,000 on.
C32_BadgeFormat ==
  badge # None =>
    LET n == badge[1].count
    IN  badge[1].text =
          IF n < 1000 THEN Decimal(n)
          ELSE IF n < 1000000 THEN Append(Decimal(n \div 1000), "K")
          ELSE Append(Decimal(n \div 1000000), "M")

\* formatLineCount(999) returned 9H.
C32_HundredsTier ==
  badge = Some([count |-> 999, text |-> <<"9", "H">>])

\* C33  Eventual notification.  Every key waiting in the watcher queue or in
\* the provider's pending set is eventually announced, by a key-list event
\* that contains it or by a full-refresh event, however many further keys are
\* added while it waits.
C33_EventualNotification ==
  \A k \in NotifyKeys :
    (k \in funnel.pendingWatcherUpdates \/ k \in batcher.pendingUpdates)
      ~> (emitted # None /\ (emitted[1].full \/ k \in emitted[1].keys))

\* The key a is still pending in the provider after as many calls as a
\* window counts, and the refresh timer has just been started afresh.
C33_StillWaitingAfterManyCalls ==
  /\ "a" \in batcher.pendingUpdates
  /\ since.calls = MaxNotifyOps
  /\ batcher.refreshTimer.live
  /\ ~batcher.refreshTimer.elapsed
  /\ emitted = None

\* C34  Funnel forwards into invalidation.  Every key the watcher queue has
\* taken is handed on in the end, and a step that hands keys on, as a batch
\* or as a full refresh on overflow, leaves none of them with an entry in
\* lineCountCache, fileDecorations or fileMetadataCache.
C34_FunnelInvalidates ==
  /\ [][forwarded' # None =>
          \A k \in funnel.pendingWatcherUpdates :
            /\ k \notin caches'.lineCountCache
            /\ k \notin caches'.fileDecorations
            /\ k \notin caches'.fileMetadataCache]_vars
  /\ \A k \in NotifyKeys :
       (k \in funnel.pendingWatcherUpdates)
         ~> (/\ forwarded # None
             /\ k \notin funnel.pendingWatcherUpdates
             /\ k \notin caches.lineCountCache
             /\ k \notin caches.fileDecorations
             /\ k \notin caches.fileMetadataCache)

\* The queue overflowed and handed on a full refresh while a holds entries in
\* all three caches.
C34_CollapseKeepsEntries ==
  /\ forwarded = Some([full |-> TRUE, keys |-> {}])
  /\ funnel.pendingWatcherUpdates = {}
  /\ "a" \in caches.lineCountCache
  /\ "a" \in caches.fileDecorations
  /\ "a" \in caches.fileMetadataCache

\* C35  Cap overflow converges in both queues.  A watcher queue that
\* overflows is cleared, loses its timer and asks the provider for a full
\* refresh in the same step; a pending set of the provider above its cap has
\* set fullRefreshPending; the flag leads to a full-refresh event, and the
\* flush that finds the flag set fires that one event and no list of keys.
C35_CapOverflowConverges ==
  /\ [][(forwarded' # None /\ forwarded'[1].full) =>
          /\ funnel'.pendingWatcherUpdates = {}
          /\ ~funnel'.watcherQueueTimer
          /\ batcher'.fullRefreshPending
          /\ batcher'.pendingUpdates = {}]_vars
  /\ [](Cardinality(batcher.pendingUpdates) > PENDING_UPDATES_CAP
          => batcher.fullRefreshPending)
  /\ [][(batcher.fullRefreshPending /\ emitted' # None) =>
          /\ emitted'[1] = [full |-> TRUE, keys |-> {}]
          /\ ~batcher'.fullRefreshPending
          /\ batcher'.pendingUpdates = {}]_vars
  /\ batcher.fullRefreshPending ~> (emitted # None /\ emitted[1].full)

\* The watcher queue has just overflowed: it is empty and without timer, and
\* the provider holds the flag with no key pending.
C35_WatcherQueueCollapsed ==
  /\ forwarded = Some([full |-> TRUE, keys |-> {}])
  /\ funnel.pendingWatcherUpdates = {}
  /\ ~funnel.watcherQueueTimer
  /\ batcher.fullRefreshPending
  /\ batcher.pendingUpdates = {}
  /\ batcher.refreshTimer.live

\* C36  Initializing flag tracks the live scan.  isInitializing is true
\* exactly when a scan that captured the current initializationRunId has
\* started and not yet ended, and initializationPromise is then that scan's
\* promise; a scan that fails or is cancelled does not leave the flag set, and
\* the end of a superseded scan changes neither the flag nor the promise.
C36_FlagTracksLiveScan ==
  /\ [](LET live == {s \in Scans : /\ scans[s].pc \in {"delay", "find", "batch"}
                                   /\ scans[s].runId = appState.initializationRunId}
        IN  /\ appState.isInitializing = (live # {})
            /\ \A s \in live : appState.initializationPromise = Some(s)
            /\ live = {} => appState.initializationPromise = None)
  /\ [][\A s \in Scans :
          (scans[s].pc # "done" /\ scans'[s].pc = "done") =>
            /\ scans'[s].outcome = "failed" /\ ~Superseded(appState, scans[s])
                 => ~appState'.isInitializing
            /\ Superseded(appState, scans[s]) => appState' = appState]_vars

\* The first scan, superseded by a forced start, has ended while the second
\* is at findFiles: the flag and the promise are still those of the second.
C36_SupersededEndedBesideLiveScan ==
  /\ scans[1].pc = "done"
  /\ scans[1].outcome = "superseded"
  /\ scans[2].pc = "find"
  /\ scans[2].runId = appState.initializationRunId
  /\ appState.isInitializing
  /\ appState.initializationPromise = Some(2)

\* C37  Non-forced start is idempotent.  initializeDecorations without force
\* while a scan is in progress starts no scan, leaves the state as it is and
\* returns the running scan's promise; only a forced start or
\* cancelInitialization increases the run id; at most one scan holds the
\* current run id.
C37_NonForcedStartIdempotent ==
  /\ [](appState.isInitializing =>
          \A nFolders \in {0, MaxFolders} :
            LET r == Initialized(appState, scans, FALSE, nFolders)
            IN  /\ r.appState = appState
                /\ r.scans = scans
                /\ r.returned # None
                /\ scans[r.returned[1]].pc \in {"delay", "find", "batch"}
                /\ scans[r.returned[1]].runId = appState.initializationRunId)
  /\ [][appState'.initializationRunId # appState.initializationRunId =>
          \/ /\ appState'.initializationRunId = appState.initializationRunId + 2
             /\ appState'.isInitializing
          \/ /\ appState'.initializationRunId = appState.initializationRunId + 1
             /\ ~appState'.isInitializing]_vars
  /\ [](Cardinality({s \in Scans : /\ scans[s].pc # "idle"
                                   /\ scans[s].runId = appState.initializationRunId}) <= 1)

\* C37 as it holds: the same, but while no scan is in progress a non-forced
\* start increases the run id too, by one, for the scan it starts.
C37_NonForcedStartIdempotentInProgress ==
  /\ [](appState.isInitializing =>
          \A nFolders \in {0, MaxFolders} :
            LET r == Initialized(appState, scans, FALSE, nFolders)
            IN  /\ r.appState = appState
                /\ r.scans = scans
                /\ r.returned # None
                /\ scans[r.returned[1]].pc \in {"delay", "find", "batch"}
                /\ scans[r.returned[1]].runId = appState.initializationRunId)
  /\ [][appState'.initializationRunId # appState.initializationRunId =>
          \/ /\ appState'.initializationRunId = appState.initializationRunId + 2
             /\ appState'.isInitializing
          \/ /\ appState'.initializationRunId = appState.initializationRunId + 1
             /\ ~appState'.isInitializing
          \/ /\ ~appState.isInitializing
             /\ appState'.initializationRunId = appState.initializationRunId + 1
             /\ appState'.isInitializing
             /\ \E s \in Scans : /\ scans[s].pc = "idle"
                                 /\ scans'[s].pc = "delay"
                                 /\ scans'[s].runId = appState'.initializationRunId]_vars
  /\ [](Cardinality({s \in Scans : /\ scans[s].pc # "idle"
                                   /\ scans[s].runId = appState.initializationRunId}) <= 1)

\* A scan started without force is sending its batches and no other scan was
\* started: a further call without force returns this scan's promise.
C37_SecondCallJoinsRunningScan ==
  /\ appState.isInitializing
  /\ appState.initializationRunId = 1
  /\ scans[1].pc = "batch"
  /\ scans[2].pc = "idle"
  /\ Initialized(appState, scans, FALSE, MaxFolders).returned = Some(1)

\* C38  Limiter is work-conserving.  Whenever a unit waits, the running count
\* equals maxConcurrent; a unit handed to run() while another waits is not
\* started by that call, and the units a step starts while units wait are
\* the first ones of the queue, in its order.
C38_WorkConserving ==
  /\ [](limiter.queue # <<>> => limiter.running = limiter.maxConcurrent)
  /\ [][limiter.queue # <<>> =>
          LET new == SubSeq(started', Len(started) + 1, Len(started'))
          IN  /\ Len(new) <= Len(limiter.queue)
              /\ new = SubSeq(limiter.queue, 1, Len(new))
              /\ \A u \in Units :
                   (units[u].state = "new" /\ units'[u].state # "new") =>
                     /\ new = <<>>
                     /\ units'[u].state \in {"queued", "done"}
                     /\ units'[u].state = "queued" =>
                          limiter'.queue = Append(limiter.queue, u)]_vars

\* Both slots of a limiter of 2 are taken while a unit waits, after a unit
\* that waited before it was started by a completion.
C38_SlotRefilledWhileOneWaits ==
  /\ limiter.maxConcurrent = 2
  /\ limiter.running = 2
  /\ Len(limiter.queue) = 1
  /\ Len(enqueued) = 2
  /\ units[enqueued[1]].state = "running"
  /\ limiter.queue = <<enqueued[2]>>

\* C39  Registry entries are removed only by their own computation or by
\* invalidation.  When a unit settles, the processingQueue entry of its key is
\* removed only if it is the handle of that unit: an entry that a later call
\* registered for the key, after a refresh removed the unit's own, stays.
C39_OwnEntryOnly ==
  [][\A t \in Resolves :
       (tasks[t].state # "free" /\ tasks'[t].state = "free") =>
         LET k == tasks[t].key
         IN  processingQueue[k] # t => processingQueue'[k] = processingQueue[k]]_vars

\* C40  Pending work always has an armed timer.  After every step of the two
\* queues, a non-empty pendingWatcherUpdates has watcherQueueTimer armed, and
\* a non-empty pendingUpdates or a set fullRefreshPending has refreshTimer
\* armed.
C40_PendingHasTimer ==
  /\ funnel.pendingWatcherUpdates # {} => funnel.watcherQueueTimer
  /\ (batcher.pendingUpdates # {} \/ batcher.fullRefreshPending)
       => batcher.refreshTimer.live

\* The provider has just flushed a key list and holds nothing, its timer
\* spent, while the watcher queue holds a key under its own armed timer.
C40_FlushedBesideWaitingQueue ==
  /\ emitted # None
  /\ ~emitted[1].full
  /\ batcher.pendingUpdates = {}
  /\ ~batcher.fullRefreshPending
  /\ ~batcher.refreshTimer.live
  /\ funnel.pendingWatcherUpdates = {"a"}
  /\ funnel.watcherQueueTimer

====
